---- MODULE Spec2Model ----
(***************************************************************************)
(* photo_folio: the gallery builder (src/gallery_builder/process.py, as    *)
(* documented in src/docs/layout-organic.md) and the Svelte gallery view.  *)
(***************************************************************************)
EXTENDS Integers, Sequences, FiniteSets, Bags, TLC

VARIABLES
  \* IncrementalGate inputs and result (needs_processing / process_image)
  gForce, gSrc, gOuts, gResult,
  \* ConfigSynchronizer: the entries of the source root, the site.json
  \* document before the sync, the document after it, and the sync's state
  cEntries, cBefore, cConfig, cState,
  \* The gallery on disk: the ids in the source directory, their modification
  \* times, the undecodable ones, the output files (id -> time per size, 0: no
  \* file), the output files left incomplete, the manifest, and the clock
  source, mtime, corrupt, out, partial, manifest, now,
  \* The build (process_gallery): its options, its position, the submitted
  \* images, each future's state and result, the statement of process_image
  \* each running call has reached, the futures as_completed has yielded, a
  \* pending exception, and the loop's accumulators
  force, jobs, cpu_count, max_workers, pc, source_images, fut, result, stage,
  collected, exc, manifest_images, processed, skipped, errors, removed,
  \* History: which build this is, whether the sources changed since the
  \* previous build, the previous build's manifest, and the faults so far
  run, edited, prevManifest, faults,
  \* OrphanReconciler (clean_orphans): the output files of a gallery, the
  \* valid ids, the files before the first and before the latest call, the
  \* latest call's return value and the number of calls made
  oFiles, oValid, oOriginal, oBefore, oRemoved, oCalls,
  \* The viewer: the manifest cache and the current gallery id (gallery.js),
  \* the window's layout, the Gallery component's prevManifestId,
  \* prevLayoutMinWidth and shuffledImages, the loaded-image set of
  \* loadedImages.js, the handler that ran last, what App shows (nothing yet,
  \* loading, the gallery or the load error), the gallery initGallery is
  \* waiting for and, one for each other switchGallery call that waits, the
  \* gallery it waits for (a bag)
  manifestCache, currentGalleryId, layout, prevManifestId, prevLayoutMinWidth,
  shuffledImages, imageIds, vLast, vApp, vInit, vPending,
  \* The lightbox: whether it is open, the id of the clicked photo, the
  \* sequence of image ids and the index of the image shown
  lightboxOpen, lightboxStartImageId, sequence, currentIndex,
  \* The run (Processing Flow): whether the source root can be read, site.json
  \* written and the output root directory itself written; the entries of
  \* the source root (name -> is a directory) and of the output root (name ->
  \* what the entry holds and which of it can be written), now and before
  \* the run; the --force option; the discovered galleries, the position of the run,
  \* the index of the gallery at hand, the steps taken so far, the list
  \* clean_orphan_galleries returned, the tallies, and whether anything under
  \* the output root has been created, changed or deleted
  rSourceReadable, rConfigWritable, rOutputWritable, rSource, rOutput,
  rOutputBefore, rForce, rGalleries, rPhase, rIndex, rLog, rRemoved,
  rTally, rTouched,
  \* resize_image: the size of the opened image, the target, the size of the
  \* returned image and whether the call has been made
  zSize, zTarget, zResult, zState,
  \* The gallery store of the viewer (gallery.js): the keys of
  \* config.galleries.items and config.galleries.default, the URL hash, the
  \* galleries whose manifest the server can deliver, the manifest cache, the
  \* current gallery id, the switchGallery calls made so far (each with its
  \* gallery and its state), the number of fetches started per gallery, and
  \* whether the page has loaded
  sItems, sDefault, sHash, sServer, sCache, sCurrent, sCalls, sFetches, sPhase,
  \* One batch seen file by file: the files of the gallery's source
  \* directory (name without extension, extension), the submitted jobs, the
  \* jobs that wrote each output path, the records collected, and the
  \* position of the batch
  jFiles, jForce, jWorkers, jJobs, jOut, jWrites, jRecords, jState,
  \* The service worker: which fetch handler is installed, the generation of
  \* its cache names, whether the network can be reached, the requests stored
  \* in each cache, the cache.put calls still running, the image requests the
  \* network has answered with an ok response since the caches were last
  \* emptied, the latest request with its answer, and the requests so far
  wHandler, wGeneration, wOnline, wCaches, wPuts, wAnswered, wLast, wRequests, wFlight,
  wActivating,
  \* The site title (handleLogoClick): window.scrollY, whether a smooth scroll
  \* to the top is running, and for every click so far where its callback
  \* stands, whether it found the page scrolled down, and how many reshuffles
  \* it has triggered
  scrollY, smoothScroll, clicks,
  \* The plain viewer (script.js): the current gallery, the pool of photo
  \* elements, the lookup from image id to pool entry, the ids of the loaded
  \* images, the photo elements of the page in document order, the lightbox's
  \* sequence, whether the lightbox is open, the id of the clicked photo, the
  \* galleries whose manifest is in galleryManifests, and, one for
  \* each call of switchGallery that waits for its manifest, its gallery (a bag)
  currentGallery, photoPool, photoPoolByImageId, loadedImageIds, pDom, pSequence, pOpen, pClicked,
  galleryManifests, pPending, pInit,
  \* computeMasonryPositions: the orientations of the images, the column count
  \* of the breakpoint, the scaleRandom setting, the positions returned and
  \* whether the call has been made
  mImages, mColumns, mGalleryConfig, mLayoutConfig, mPositions, mState

gateVars == <<gForce, gSrc, gOuts, gResult>>
configVars == <<cEntries, cBefore, cConfig, cState>>
diskVars == <<source, mtime, corrupt, out, partial, manifest, now>>
optionVars == <<force, jobs, cpu_count, max_workers>>
loopVars == <<manifest_images, processed, skipped, errors>>
historyVars == <<run, edited, prevManifest, faults>>
buildVars == <<diskVars, optionVars, pc, source_images, fut, result, stage,
               collected, exc, loopVars, removed, historyVars>>
orphanVars == <<oFiles, oValid, oOriginal, oBefore, oRemoved, oCalls>>
lightboxVars == <<lightboxOpen, lightboxStartImageId, sequence, currentIndex>>
viewerVars == <<manifestCache, currentGalleryId, layout, prevManifestId,
                prevLayoutMinWidth, shuffledImages, imageIds, vLast, vApp, vInit,
                vPending, lightboxVars>>
runVars == <<rSourceReadable, rConfigWritable, rOutputWritable, rSource, rOutput,
             rOutputBefore,
             rForce, rGalleries, rPhase, rIndex, rLog, rRemoved, rTally,
             rTouched>>
resizeVars == <<zSize, zTarget, zResult, zState>>
storeVars == <<sItems, sDefault, sHash, sServer, sCache, sCurrent, sCalls, sFetches, sPhase>>
stemVars == <<jFiles, jForce, jWorkers, jJobs, jOut, jWrites, jRecords, jState>>
workerVars == <<wHandler, wGeneration, wOnline, wCaches, wPuts, wAnswered, wLast, wRequests,
                wFlight, wActivating>>
logoVars == <<scrollY, smoothScroll, clicks>>
poolVars == <<currentGallery, photoPool, photoPoolByImageId, loadedImageIds, pDom, pSequence, pOpen, pClicked,
              galleryManifests, pPending, pInit>>
masonryVars == <<mImages, mColumns, mGalleryConfig, mLayoutConfig, mPositions, mState>>
extraVars == <<storeVars, stemVars, workerVars, logoVars, poolVars, masonryVars>>
coreVars == <<gateVars, configVars, buildVars, orphanVars, viewerVars, runVars, resizeVars>>
exceptStore == <<coreVars, stemVars, workerVars, logoVars, poolVars, masonryVars>>
exceptStem == <<coreVars, storeVars, workerVars, logoVars, poolVars, masonryVars>>
exceptWorker == <<coreVars, storeVars, stemVars, logoVars, poolVars, masonryVars>>
exceptLogo == <<coreVars, storeVars, stemVars, workerVars, poolVars, masonryVars>>
exceptPool == <<coreVars, storeVars, stemVars, workerVars, logoVars, masonryVars>>
exceptMasonry == <<coreVars, storeVars, stemVars, workerVars, logoVars, poolVars>>
sideVars == <<orphanVars, viewerVars, runVars, resizeVars, extraVars>>
vars == <<gateVars, configVars, buildVars, sideVars>>

(***************************************************************************)
(* Bounds                                                                  *)
(***************************************************************************)
\* Largest file modification time (a logical clock; 0 stands for "no file").
MaxTime == 3

(***************************************************************************)
(* Output sizes: SIZES = {"thumb": 400, "medium": 800, "full": 1600}, in   *)
(* the dictionary's insertion order.                                       *)
(***************************************************************************)
SIZES == <<"thumb", "medium", "full">>

SizeNames == {SIZES[k] : k \in 1..Len(SIZES)}

(***************************************************************************)
(* needs_processing(source_path, output_paths): the loop over the output   *)
(* paths, in order.  outs[k] is the modification time of the k-th output,  *)
(* 0 when output_path.exists() is false.                                   *)
(***************************************************************************)
\* Variant that also treats an output exactly as old as the source as stale.
needs_processing_stale_on_equal(source_mtime, outs) ==
  LET RECURSIVE go(_)
      go(k) == IF k > Len(outs) THEN FALSE
               ELSE IF outs[k] = 0 THEN TRUE
               ELSE IF outs[k] <= source_mtime THEN TRUE
               ELSE go(k + 1)
  IN go(1)

needs_processing(source_mtime, outs) ==
  LET RECURSIVE go(_)
      go(k) == IF k > Len(outs) THEN FALSE
               ELSE IF outs[k] = 0 THEN TRUE
               ELSE IF outs[k] < source_mtime THEN TRUE
               ELSE go(k + 1)
  IN go(1)

(***************************************************************************)
(* The head of process_image: "if not force and not needs_processing(...)  *)
(* return 'skipped'"; otherwise the image is (re-)encoded.                 *)
(***************************************************************************)
gate(forced, source_mtime, outs) ==
  IF ~forced /\ ~needs_processing(source_mtime, outs) THEN "skipped" ELSE "stale"

(***************************************************************************)
(* Text.  A name is a sequence of characters.  CharOrder lists the         *)
(* characters the model uses by increasing code point, which is the order  *)
(* Python compares strings by.                                             *)
(***************************************************************************)
CharOrder ==
  <<"&", "-", ".", "2", "B", "C", "O", "W", "_", "b", "c", "o", "w">>

LowerCase == <<"b", "c", "o", "w">>
UpperCase == <<"B", "C", "O", "W">>

Ord(ch) == CHOOSE k \in 1..Len(CharOrder) : CharOrder[k] = ch

IsLower(ch) == \E k \in 1..Len(LowerCase) : LowerCase[k] = ch
IsUpper(ch) == \E k \in 1..Len(UpperCase) : UpperCase[k] = ch
IsCased(ch) == IsLower(ch) \/ IsUpper(ch)

upper(ch) ==
  IF IsLower(ch) THEN UpperCase[CHOOSE k \in 1..Len(LowerCase) : LowerCase[k] = ch]
  ELSE ch

lower(ch) ==
  IF IsUpper(ch) THEN LowerCase[CHOOSE k \in 1..Len(UpperCase) : UpperCase[k] = ch]
  ELSE ch

\* str.__lt__: lexicographic by code point, a proper prefix first.
RECURSIVE StrLess(_, _)
StrLess(a, b) ==
  IF Len(b) = 0 THEN FALSE
  ELSE IF Len(a) = 0 THEN TRUE
  ELSE IF Ord(Head(a)) < Ord(Head(b)) THEN TRUE
  ELSE IF Ord(Head(a)) > Ord(Head(b)) THEN FALSE
  ELSE StrLess(Tail(a), Tail(b))

\* sorted(names): the smallest name first, then the rest sorted.
RECURSIVE sorted(_)
sorted(names) ==
  IF names = {} THEN <<>>
  ELSE LET m == CHOOSE x \in names : \A y \in names \ {x} : StrLess(x, y)
       IN <<m>> \o sorted(names \ {m})

\* str.replace(old, new) for single characters.
replace(str, old, new) ==
  [k \in 1..Len(str) |-> IF str[k] = old THEN new ELSE str[k]]

\* str.title(): a cased character is upper-cased when it follows an uncased
\* character (or starts the string) and lower-cased otherwise.
title(str) ==
  [k \in 1..Len(str) |->
     IF k = 1 \/ ~IsCased(str[k - 1]) THEN upper(str[k]) ELSE lower(str[k])]

\* str.startswith('.')
startswith_dot(str) == Len(str) > 0 /\ str[1] = "."

(***************************************************************************)
(* discover_galleries(source_base): entries maps each name in the source   *)
(* root to TRUE for a directory and FALSE for a file.                      *)
(***************************************************************************)
discover_galleries(entries) ==
  sorted({n \in DOMAIN entries : entries[n] /\ ~startswith_dot(n)})

(***************************************************************************)
(* generate_display_name(gallery_name)                                     *)
(***************************************************************************)
generate_display_name(gallery_name) ==
  title(replace(replace(gallery_name, "_", " "), "-", " "))

(***************************************************************************)
(* update_config_galleries(config_path, galleries).  A document, a section *)
(* and an entry are functions from key strings to values, so a missing key *)
(* is a key outside the DOMAIN.                                            *)
(***************************************************************************)
Get(obj, key, default) == IF key \in DOMAIN obj THEN obj[key] ELSE default

Put(obj, key, value) ==
  [k \in DOMAIN obj \cup {key} |-> IF k = key THEN value ELSE obj[k]]

EmptyObject == [k \in {} |-> TRUE]

\* The entry built for the gallery at 1-based position i.
new_item(existing_items, gallery_name, i) ==
  IF gallery_name \in DOMAIN existing_items
  THEN LET old == existing_items[gallery_name]
           item == [displayName |->
                      Get(old, "displayName", generate_display_name(gallery_name)),
                    order |-> i]
       IN IF "layout" \in DOMAIN old THEN Put(item, "layout", old["layout"])
          ELSE item
  ELSE [displayName |-> generate_display_name(gallery_name), order |-> i]

\* Variant that numbers the galleries from 0.
new_items_from_zero(existing_items, galleries) ==
  [g \in {galleries[i] : i \in 1..Len(galleries)} |->
     new_item(existing_items, g,
              (CHOOSE i \in 1..Len(galleries) : galleries[i] = g) - 1)]

new_items(existing_items, galleries) ==
  [g \in {galleries[i] : i \in 1..Len(galleries)} |->
     new_item(existing_items, g, CHOOSE i \in 1..Len(galleries) : galleries[i] = g)]

\* Variant that rebuilds the galleries section from the new items alone.
update_config_galleries_items_only(config, galleries) ==
  LET existing_items == Get(Get(config, "galleries", EmptyObject), "items", EmptyObject)
      items == new_items(existing_items, galleries)
  IN IF "galleries" \in DOMAIN config
     THEN [raised |-> "", config |-> Put(config, "galleries", [items |-> items])]
     ELSE [raised |-> "KeyError", config |-> config]

\* Variant that points galleries.default at the first gallery when the
\* default is not among the new items.
update_config_galleries_repairs_default(config, galleries) ==
  LET existing_items == Get(Get(config, "galleries", EmptyObject), "items", EmptyObject)
      items == new_items(existing_items, galleries)
      section == Put(config["galleries"], "items", items)
  IN IF "galleries" \in DOMAIN config
     THEN [raised |-> "",
           config |-> Put(config, "galleries",
                          IF Len(galleries) > 0 /\ Get(section, "default", <<>>) \notin DOMAIN items
                          THEN Put(section, "default", galleries[1])
                          ELSE section)]
     ELSE [raised |-> "KeyError", config |-> config]

\* The document after the update; raised is "KeyError" when config['galleries']
\* does not exist at the assignment of the new items, and nothing is written.
update_config_galleries(config, galleries) ==
  LET existing_items == Get(Get(config, "galleries", EmptyObject), "items", EmptyObject)
      items == new_items(existing_items, galleries)
  IN IF "galleries" \in DOMAIN config
     THEN [raised |-> "",
           config |-> Put(config, "galleries", Put(config["galleries"], "items", items))]
     ELSE [raised |-> "KeyError", config |-> config]

(***************************************************************************)
(* The build of one gallery.  An image id is the base name of a source     *)
(* file; the gallery's source directory holds some of the ids of Images.   *)
(***************************************************************************)
\* Most source images of the gallery.
MaxImages == 3
\* Most corrupt (undecodable) source files.
MaxCorrupt == 1
\* Most failures of the environment (a write or a stat that raises) per build.
MaxFaults == 1
\* Most switchGallery calls that wait for a manifest at the same time.
MaxPending == 2
\* Largest value of the -j option.
MaxJobs == 2
\* Largest CPU count of the host.
MaxCpu == 2

ImagePool == <<"a", "b", "c", "d", "e">>

Images == {ImagePool[k] : k \in 1..MaxImages}

\* Original pixel sizes (width, height) of the source images, in thousands.
ImageWidth(id) == CASE id = "a" -> 3 [] id = "b" -> 2 [] id = "c" -> 2 [] OTHER -> 4
ImageHeight(id) == CASE id = "a" -> 2 [] id = "b" -> 3 [] id = "c" -> 2 [] OTHER -> 3

\* get_orientation(width, height)
get_orientation(width, height) ==
  IF width > height THEN "landscape"
  ELSE IF height > width THEN "portrait"
  ELSE "square"

NoOutputs == [k \in 1..Len(SIZES) |-> 0]

(***************************************************************************)
(* process_image(source_path, base_name, output_dir, force), statement by  *)
(* statement.  The call runs on a worker thread and every statement below  *)
(* is blocking file I/O, so the other threads run in between.              *)
(*   stage        the statement the call has reached: "check" (the         *)
(*                staleness check), "open" (Image.open) or the size class  *)
(*                whose save comes next                                    *)
(*   outs         the modification times of the three expected outputs     *)
(*   undecodable  Image.open raises for this file                          *)
(*   fails        the statement raises OSError: os.path.getmtime inside    *)
(*                needs_processing, or resized.save                        *)
(*   clock        the time at which an output is written                   *)
(* The result is the state of the call after the statement: status         *)
(* "running" with the next stage, or the returned (status, data); status   *)
(* "raised" stands for an exception that leaves the function: the          *)
(* staleness check runs before the try block.                              *)
(***************************************************************************)
SizeIndex(size_name) == CHOOSE k \in 1..Len(SIZES) : SIZES[k] = size_name

\* The record process_image returns for an image.
ImageRecord(id) ==
  [id |-> id,
   orientation |-> get_orientation(ImageWidth(id), ImageHeight(id)),
   width |-> ImageWidth(id),
   height |-> ImageHeight(id)]

\* with Image.open(source_path) as img
open_image(base_name, outs, undecodable) ==
  IF undecodable
  THEN [status |-> "error", data |-> "UnidentifiedImageError", outs |-> outs, stage |-> "none"]
  ELSE [status |-> "running", data |-> "None", outs |-> outs, stage |-> SIZES[1]]

\* One turn of the save loop, for the size class size_name, and the return
\* after the last one.
save_size(size_name, base_name, outs, fails, clock) ==
  LET k == SizeIndex(size_name)
      saved == [outs EXCEPT ![k] = clock]
  IN  IF fails
      THEN [status |-> "error", data |-> "OSError", outs |-> outs, stage |-> "none"]
      ELSE IF k = Len(SIZES)
      THEN [status |-> "processed", data |-> ImageRecord(base_name), outs |-> saved,
            stage |-> "none"]
      ELSE [status |-> "running", data |-> "None", outs |-> saved, stage |-> SIZES[k + 1]]

\* Variant that returns after the first size class.
process_image_first_size_only(at, source_mtime, base_name, outs, forced, undecodable, fails, clock) ==
  IF at = "check"
  THEN IF ~forced /\ fails
       THEN [status |-> "raised", data |-> "OSError", outs |-> outs, stage |-> "none"]
       ELSE IF ~forced /\ ~needs_processing(source_mtime, outs)
       THEN [status |-> "skipped", data |-> "None", outs |-> outs, stage |-> "none"]
       ELSE [status |-> "running", data |-> "None", outs |-> outs, stage |-> "open"]
  ELSE IF at = "open" THEN open_image(base_name, outs, undecodable)
  ELSE IF fails
  THEN [status |-> "error", data |-> "OSError", outs |-> outs, stage |-> "none"]
  ELSE [status |-> "processed", data |-> ImageRecord(base_name),
        outs |-> [outs EXCEPT ![SizeIndex(at)] = clock], stage |-> "none"]

process_image(at, source_mtime, base_name, outs, forced, undecodable, fails, clock) ==
  IF at = "check"
  THEN IF ~forced /\ fails
       THEN [status |-> "raised", data |-> "OSError", outs |-> outs, stage |-> "none"]
       ELSE IF ~forced /\ ~needs_processing(source_mtime, outs)
       THEN [status |-> "skipped", data |-> "None", outs |-> outs, stage |-> "none"]
       ELSE [status |-> "running", data |-> "None", outs |-> outs, stage |-> "open"]
  ELSE IF at = "open" THEN open_image(base_name, outs, undecodable)
  ELSE save_size(at, base_name, outs, fails, clock)

(***************************************************************************)
(* process_gallery: max_workers = jobs if jobs > 0 else (os.cpu_count() or *)
(* 4).  cpu_count is 0 when os.cpu_count() returns None.                   *)
(***************************************************************************)
DefaultWorkers == 4

\* Variant that ignores the -j value.
max_workers_ignoring_jobs(j, cpus) ==
  IF cpus # 0 THEN cpus ELSE DefaultWorkers

max_workers_of(j, cpus) ==
  IF j > 0 THEN j
  ELSE IF cpus # 0 THEN cpus ELSE DefaultWorkers

\* The source images of the gallery in submission order.
source_images_of(ids) ==
  LET RECURSIVE from(_)
      from(k) == IF k > Len(ImagePool) THEN <<>>
                 ELSE IF ImagePool[k] \in ids THEN <<ImagePool[k]>> \o from(k + 1)
                 ELSE from(k + 1)
  IN from(1)

(***************************************************************************)
(* clean_orphans(output_dir, valid_ids): files maps each id to the times   *)
(* of its files in the three size directories (0: no such file).           *)
(***************************************************************************)
\* Variant that stops after the first size directory.
clean_orphans_first_size_only(files, valid_ids) ==
  LET unlinked == {p \in (DOMAIN files) \X {1} :
                     files[p[1]][p[2]] # 0 /\ p[1] \notin valid_ids}
  IN [files |-> [id \in DOMAIN files |->
                   [k \in 1..Len(SIZES) |->
                      IF <<id, k>> \in unlinked THEN 0 ELSE files[id][k]]],
      removed |-> Cardinality(unlinked) \div Len(SIZES)]

clean_orphans(files, valid_ids) ==
  LET unlinked == {p \in (DOMAIN files) \X (1..Len(SIZES)) :
                     files[p[1]][p[2]] # 0 /\ p[1] \notin valid_ids}
  IN [files |-> [id \in DOMAIN files |->
                   [k \in 1..Len(SIZES) |->
                      IF <<id, k>> \in unlinked THEN 0 ELSE files[id][k]]],
      removed |-> Cardinality(unlinked) \div Len(SIZES)]

(***************************************************************************)
(* SpecConfig: the synchronizer applied to source roots and site.json      *)
(* documents drawn from small pools.                                       *)
(***************************************************************************)
\* Most entries (directories and files) in the source root.
MaxDirs == 3
\* Most gallery entries in the document before the sync.
MaxExisting == 2

NamePool ==
  { <<"b", "w">>, <<"b", "_", "w">>, <<"c", "-", "o", "2">>, <<".", "c">>,
    <<"B", "W">> }

CustomName == <<"B", "&", "W">>

\* Entries as an operator may have left them in site.json.
EntryPool ==
  { [displayName |-> CustomName, order |-> 1],
    [displayName |-> CustomName, order |-> 2, layout |-> "masonry"],
    [displayName |-> CustomName, order |-> 1, randomOrder |-> FALSE],
    [order |-> 3] }

SiteSection == [name |-> "Your Name", subtitle |-> "fine art photography"]

ItemsPool ==
  UNION { [D -> EntryPool] : D \in {X \in SUBSET NamePool : Cardinality(X) <= MaxExisting} }

ConfigPool ==
  { [site |-> SiteSection,
     galleries |-> [default |-> <<"b", "w">>, defaultLayout |-> "organic", items |-> it]]
      : it \in ItemsPool }
  \cup { [site |-> SiteSection,
          galleries |-> [default |-> <<"b", "w">>, defaultLayout |-> "organic"]],
         [site |-> SiteSection] }

EntriesPool ==
  UNION { [D -> BOOLEAN] : D \in {X \in SUBSET NamePool : Cardinality(X) <= MaxDirs} }

(***************************************************************************)
(* Each specification below exercises one part of the program and holds    *)
(* the variables of the other parts at these values.                       *)
(***************************************************************************)
GateIdle ==
  /\ gForce = FALSE
  /\ gSrc = 1
  /\ gOuts = [k \in 1..Len(SIZES) |-> 0]
  /\ gResult = "none"

ConfigIdle ==
  /\ cEntries = EmptyObject
  /\ cBefore = [site |-> SiteSection]
  /\ cConfig = [site |-> SiteSection]
  /\ cState = "idle"

NoManifest == [written |-> FALSE, images |-> <<>>, generated |-> 0]

BuildIdle ==
  /\ source = {}
  /\ mtime = [i \in Images |-> 0]
  /\ corrupt = {}
  /\ out = [i \in Images |-> NoOutputs]
  /\ partial = {}
  /\ manifest = NoManifest
  /\ now = 0
  /\ force = FALSE
  /\ jobs = 1
  /\ cpu_count = 0
  /\ max_workers = 1
  /\ pc = "off"
  /\ source_images = <<>>
  /\ fut = [i \in Images |-> "none"]
  /\ result = [i \in Images |-> <<>>]
  /\ stage = [i \in Images |-> "none"]
  /\ collected = {}
  /\ exc = FALSE
  /\ manifest_images = <<>>
  /\ processed = 0
  /\ skipped = 0
  /\ errors = 0
  /\ removed = 0
  /\ run = "first"
  /\ edited = FALSE
  /\ prevManifest = NoManifest
  /\ faults = 0

OrphansIdle ==
  /\ oFiles = [i \in Images |-> NoOutputs]
  /\ oValid = {}
  /\ oOriginal = [i \in Images |-> NoOutputs]
  /\ oBefore = [i \in Images |-> NoOutputs]
  /\ oRemoved = 0
  /\ oCalls = 0

ViewerIdle ==
  /\ manifestCache = {}
  /\ currentGalleryId = "null"
  /\ layout = -1
  /\ prevManifestId = "null"
  /\ prevLayoutMinWidth = -1
  /\ shuffledImages = <<>>
  /\ imageIds = {}
  /\ vLast = "none"
  /\ vApp = "none"
  /\ vInit = "null"
  /\ vPending = EmptyBag
  /\ lightboxOpen = FALSE
  /\ lightboxStartImageId = "null"
  /\ sequence = <<>>
  /\ currentIndex = 0

RunIdle ==
  /\ rSourceReadable = TRUE
  /\ rConfigWritable = TRUE
  /\ rOutputWritable = TRUE
  /\ rSource = EmptyObject
  /\ rOutput = EmptyObject
  /\ rOutputBefore = EmptyObject
  /\ rForce = FALSE
  /\ rGalleries = <<>>
  /\ rPhase = "off"
  /\ rIndex = 0
  /\ rLog = <<>>
  /\ rRemoved = <<>>
  /\ rTally = [processed |-> 0, skipped |-> 0, errors |-> 0]
  /\ rTouched = FALSE

ResizeIdle ==
  /\ zSize = <<1, 1>>
  /\ zTarget = 1
  /\ zResult = <<0, 0>>
  /\ zState = "off"

StoreIdle ==
  /\ sItems = {}
  /\ sDefault = <<>>
  /\ sHash = <<>>
  /\ sServer = {}
  /\ sCache = EmptyObject
  /\ sCurrent = <<>>
  /\ sCalls = <<>>
  /\ sFetches = EmptyObject
  /\ sPhase = "off"

StemIdle ==
  /\ jFiles = {}
  /\ jForce = FALSE
  /\ jWorkers = 0
  /\ jJobs = <<>>
  /\ jOut = EmptyObject
  /\ jWrites = EmptyObject
  /\ jRecords = <<>>
  /\ jState = "off"

WorkerIdle ==
  /\ wHandler = "off"
  /\ wGeneration = 0
  /\ wOnline = FALSE
  /\ wCaches = EmptyObject
  /\ wPuts = EmptyBag
  /\ wActivating = [handler |-> "off", generation |-> 0, pc |-> "none", todo |-> {}]
  /\ wAnswered = {}
  /\ wLast = EmptyObject
  /\ wRequests = 0
  /\ wFlight = {}

LogoIdle ==
  /\ scrollY = 0
  /\ smoothScroll = FALSE
  /\ clicks = <<>>

PoolIdle ==
  /\ currentGallery = "null"
  /\ photoPool = <<>>
  /\ photoPoolByImageId = EmptyObject
  /\ loadedImageIds = {}
  /\ pDom = <<>>
  /\ pSequence = <<>>
  /\ pOpen = FALSE
  /\ pClicked = "null"
  /\ galleryManifests = {}
  /\ pPending = EmptyBag
  /\ pInit = [gallery |-> "null", pc |-> "none"]

MasonryIdle ==
  /\ mImages = <<>>
  /\ mColumns = 1
  /\ mGalleryConfig = EmptyObject
  /\ mLayoutConfig = EmptyObject
  /\ mPositions = <<>>
  /\ mState = "off"

ExtraIdle == StoreIdle /\ StemIdle /\ WorkerIdle /\ LogoIdle /\ PoolIdle /\ MasonryIdle

SideIdle == OrphansIdle /\ ViewerIdle /\ RunIdle /\ ResizeIdle /\ ExtraIdle

CoreIdle ==
  GateIdle /\ ConfigIdle /\ BuildIdle /\ OrphansIdle /\ ViewerIdle /\ RunIdle /\ ResizeIdle

ExceptStoreIdle == CoreIdle /\ StemIdle /\ WorkerIdle /\ LogoIdle /\ PoolIdle /\ MasonryIdle

ExceptStemIdle == CoreIdle /\ StoreIdle /\ WorkerIdle /\ LogoIdle /\ PoolIdle /\ MasonryIdle

ExceptWorkerIdle == CoreIdle /\ StoreIdle /\ StemIdle /\ LogoIdle /\ PoolIdle /\ MasonryIdle

ExceptLogoIdle == CoreIdle /\ StoreIdle /\ StemIdle /\ WorkerIdle /\ PoolIdle /\ MasonryIdle

ExceptPoolIdle == CoreIdle /\ StoreIdle /\ StemIdle /\ WorkerIdle /\ LogoIdle /\ MasonryIdle

ExceptMasonryIdle == CoreIdle /\ StoreIdle /\ StemIdle /\ WorkerIdle /\ LogoIdle /\ PoolIdle

ConfigInit ==
  /\ cEntries \in EntriesPool
  /\ cBefore \in ConfigPool
  /\ cConfig = cBefore
  /\ cState = "ready"
  /\ GateIdle
  /\ BuildIdle
  /\ SideIdle

\* The build discovers the galleries and updates site.json; the document is
\* written back only when the update did not raise.
ConfigSync ==
  /\ cState = "ready"
  /\ LET galleries == discover_galleries(cEntries)
         updated == update_config_galleries(cConfig, galleries)
     IN /\ cState' = IF updated.raised = "" THEN "synced" ELSE "failed"
        /\ cConfig' = updated.config
  /\ UNCHANGED <<cEntries, cBefore>>
  /\ UNCHANGED <<gateVars, buildVars, sideVars>>

\* The operator adds or removes an entry of the source root between builds.
ConfigChangeRoot ==
  /\ cState = "synced"
  /\ cEntries' \in EntriesPool
  /\ \/ /\ DOMAIN cEntries' \subseteq DOMAIN cEntries
        /\ Cardinality(DOMAIN cEntries') + 1 = Cardinality(DOMAIN cEntries)
     \/ /\ DOMAIN cEntries \subseteq DOMAIN cEntries'
        /\ Cardinality(DOMAIN cEntries) + 1 = Cardinality(DOMAIN cEntries')
  /\ \A n \in DOMAIN cEntries \cap DOMAIN cEntries' : cEntries'[n] = cEntries[n]
  /\ cBefore' = cConfig
  /\ cState' = "ready"
  /\ UNCHANGED cConfig
  /\ UNCHANGED <<gateVars, buildVars, sideVars>>

ConfigNext == ConfigSync \/ ConfigChangeRoot

SpecConfig == ConfigInit /\ [][ConfigNext]_vars

ItemsOf(config) == Get(Get(config, "galleries", EmptyObject), "items", EmptyObject)

\* The visible directories of the source root.
VisibleDirs == {n \in DOMAIN cEntries : cEntries[n] /\ n[1] # "."}

\* The display names Python produces for the pool's names.
ExpectedDisplayName(n) ==
  CASE n = <<"b", "w">> -> <<"B", "w">>
    [] n = <<"b", "_", "w">> -> <<"B", " ", "W">>
    [] n = <<"c", "-", "o", "2">> -> <<"C", " ", "O", "2">>
    [] n = <<".", "c">> -> <<".", "C">>
    [] n = <<"B", "W">> -> <<"B", "w">>

\* C3 (as claimed): an entry present before and after the sync keeps every
\* field it had, except order.
C3_KeepsEveryField ==
  cState = "synced" =>
    \A id \in DOMAIN ItemsOf(cBefore) \cap DOMAIN ItemsOf(cConfig) :
      \A f \in DOMAIN ItemsOf(cBefore)[id] \ {"order"} :
        /\ f \in DOMAIN ItemsOf(cConfig)[id]
        /\ ItemsOf(cConfig)[id][f] = ItemsOf(cBefore)[id][f]

\* C5: after the sync the items are exactly the visible directories, each
\* with its 1-based rank in sorted order; a new id gets the generated display
\* name and a known id keeps the display name it had.
C5_ItemsMatchDiscovery ==
  cState = "synced" =>
    /\ DOMAIN ItemsOf(cConfig) = VisibleDirs
    /\ \A id \in VisibleDirs :
         LET item == ItemsOf(cConfig)[id]
             old == ItemsOf(cBefore)
         IN /\ item["order"] = 1 + Cardinality({m \in VisibleDirs : StrLess(m, id)})
            /\ id \notin DOMAIN old => item["displayName"] = ExpectedDisplayName(id)
            /\ (id \in DOMAIN old /\ "displayName" \in DOMAIN old[id])
                 => item["displayName"] = old[id]["displayName"]

\* C16: the sync changes nothing of the document outside galleries.items:
\* every other top-level section and every other key of the galleries
\* section is there after the sync with the content it had before.
C16_OnlyItemsChange ==
  cState \in {"synced", "failed"} =>
    /\ DOMAIN cConfig = DOMAIN cBefore
    /\ \A key \in DOMAIN cBefore \ {"galleries"} : cConfig[key] = cBefore[key]
    /\ "galleries" \in DOMAIN cBefore =>
         /\ DOMAIN cConfig["galleries"] \ {"items"} = DOMAIN cBefore["galleries"] \ {"items"}
         /\ \A key \in DOMAIN cBefore["galleries"] \ {"items"} :
              cConfig["galleries"][key] = cBefore["galleries"][key]

\* A sync that changed the items of a document with a site section and the
\* default and defaultLayout keys.
C16_Witness ==
  /\ cState = "synced"
  /\ ItemsOf(cConfig) # ItemsOf(cBefore)
  /\ ItemsOf(cBefore) # EmptyObject
  /\ "site" \in DOMAIN cConfig
  /\ {"default", "defaultLayout"} \subseteq DOMAIN cConfig["galleries"]

\* $config.galleries.default as initGallery reads it: the expression throws
\* a TypeError on a document without a galleries section and is undefined
\* when the section has no default key.
DefaultOf(config) ==
  IF "galleries" \notin DOMAIN config THEN "TypeError"
  ELSE Get(config["galleries"], "default", "undefined")

\* C30 (as claimed): after a sync that discovered at least one gallery,
\* galleries.default names a key of galleries.items.
C30_DefaultIsAnItem ==
  (cState = "synced" /\ VisibleDirs # {}) =>
    DefaultOf(cConfig) \in DOMAIN ItemsOf(cConfig)

\* C30 (amended): the sync leaves galleries.default as it was, so after it
\* the default names a key of galleries.items exactly when a visible
\* directory of that name was discovered.
C30_DefaultUntouched ==
  cState = "synced" =>
    /\ DefaultOf(cConfig) = DefaultOf(cBefore)
    /\ DefaultOf(cConfig) \in DOMAIN ItemsOf(cConfig) <=> DefaultOf(cBefore) \in VisibleDirs

\* A sync that discovered galleries, none of them the default one, which had
\* an entry before: the default is left naming no entry.
C30_Witness ==
  /\ cState = "synced"
  /\ VisibleDirs # {}
  /\ DefaultOf(cBefore) \in DOMAIN ItemsOf(cBefore)
  /\ DefaultOf(cConfig) = DefaultOf(cBefore)
  /\ DefaultOf(cConfig) \notin DOMAIN ItemsOf(cConfig)

\* One sync removed an id whose directory is gone, added a new id with a
\* generated name at a position after the first, and kept a custom name.
C5_Witness ==
  /\ cState = "synced"
  /\ \E gone \in DOMAIN ItemsOf(cBefore) : gone \notin DOMAIN ItemsOf(cConfig)
  /\ \E new \in DOMAIN ItemsOf(cConfig) :
       /\ new \notin DOMAIN ItemsOf(cBefore)
       /\ ItemsOf(cConfig)[new]["order"] > 1
       /\ ItemsOf(cConfig)[new]["displayName"] = ExpectedDisplayName(new)
  /\ \E kept \in DOMAIN ItemsOf(cBefore) \cap DOMAIN ItemsOf(cConfig) :
       ItemsOf(cConfig)[kept]["displayName"] = CustomName

(***************************************************************************)
(* SpecGate: the gate applied to every combination of a source time, the   *)
(* three output times (0: missing) and the force flag.                     *)
(***************************************************************************)
GateInputs ==
  /\ gForce \in BOOLEAN
  /\ gSrc \in 1..MaxTime
  /\ gOuts \in [1..Len(SIZES) -> 0..MaxTime]

GateInit ==
  /\ GateInputs
  /\ gResult = "none"
  /\ ConfigIdle
  /\ BuildIdle
  /\ SideIdle

\* process_image reaches its staleness decision for the current inputs.
GateCheck ==
  /\ gResult = "none"
  /\ gResult' = gate(gForce, gSrc, gOuts)
  /\ UNCHANGED <<gForce, gSrc, gOuts>>
  /\ UNCHANGED <<configVars, buildVars, sideVars>>

\* The next image (another source and another set of outputs) is presented.
GateNextImage ==
  /\ gResult # "none"
  /\ gForce' \in BOOLEAN
  /\ gSrc' \in 1..MaxTime
  /\ gOuts' \in [1..Len(SIZES) -> 0..MaxTime]
  /\ gResult' = "none"
  /\ UNCHANGED <<configVars, buildVars, sideVars>>

GateNext == GateCheck \/ GateNextImage

SpecGate == GateInit /\ [][GateNext]_vars

\* C4: with force off an image is stale exactly when an expected output is
\* missing or the source is strictly newer than some existing output (equal
\* times are fresh); with force on every image is stale.
C4_GateExact ==
  gResult # "none" =>
    (gResult = "stale") <=>
      \/ gForce
      \/ \E k \in 1..Len(SIZES) : gOuts[k] = 0
      \/ \E k \in 1..Len(SIZES) : gOuts[k] # 0 /\ gSrc > gOuts[k]

\* An image whose outputs all exist, one exactly as old as the source, was
\* judged with force off and skipped.
C4_Witness ==
  /\ gResult = "skipped"
  /\ ~gForce
  /\ \E k \in 1..Len(SIZES) : gOuts[k] = gSrc

(***************************************************************************)
(* Spec: a first build of one gallery from an empty output tree, then a    *)
(* change of the sources (or none) and a second build.                     *)
(***************************************************************************)
Range(seq) == {seq[k] : k \in 1..Len(seq)}

Outcomes == {"processed", "skipped", "error"}

Running == {i \in Images : fut[i] = "running"}

\* The executor starts a queued call when fewer than max_workers calls run.
worker_free(running, workers) == Cardinality(running) < workers

\* Variant: the as_completed loop is left after the first result.
as_completed_after_first(yielded, futures) == yielded # {} \/ futures = {}

\* The as_completed loop ends when every future has been yielded.
as_completed_exhausted(yielded, futures) == yielded = futures

\* The state every build starts from, whatever is on disk.
BuildReset ==
  /\ partial = {}
  /\ force = FALSE
  /\ jobs = 1
  /\ cpu_count = 0
  /\ max_workers = 1
  /\ pc = "idle"
  /\ source_images = <<>>
  /\ fut = [i \in Images |-> "none"]
  /\ result = [i \in Images |-> <<>>]
  /\ stage = [i \in Images |-> "none"]
  /\ collected = {}
  /\ exc = FALSE
  /\ manifest_images = <<>>
  /\ processed = 0
  /\ skipped = 0
  /\ errors = 0
  /\ removed = 0
  /\ run = "first"
  /\ edited = FALSE
  /\ prevManifest = NoManifest
  /\ faults = 0
  /\ GateIdle
  /\ ConfigIdle
  /\ SideIdle

\* The ids of a list of image records.
IdsOf(images) == {images[k].id : k \in 1..Len(images)}

\* A gallery never built: some source images, at most MaxCorrupt of them
\* undecodable, and an empty output tree.
FreshInit ==
  /\ \E n \in 0..MaxImages : source = {ImagePool[k] : k \in 1..n}
  /\ corrupt \in {c \in SUBSET source : Cardinality(c) <= MaxCorrupt}
  /\ mtime = [i \in Images |-> IF i \in source THEN 1 ELSE 0]
  /\ out = [i \in Images |-> NoOutputs]
  /\ manifest = NoManifest
  /\ now = 1
  /\ BuildReset

\* A gallery to which images were added after an earlier build: the images
\* built then have their three outputs, as old as the source, and are the
\* ones the manifest lists.
BuildInit ==
  /\ \E n \in 0..MaxImages : source = {ImagePool[k] : k \in 1..n}
  /\ corrupt \in {c \in SUBSET source : Cardinality(c) <= MaxCorrupt}
  /\ mtime = [i \in Images |-> IF i \in source THEN 1 ELSE 0]
  /\ \E built \in SUBSET (source \ corrupt) :
       /\ out = [i \in Images |->
                   IF i \in built THEN [k \in 1..Len(SIZES) |-> 1] ELSE NoOutputs]
       /\ manifest = IF built = {} THEN NoManifest
                     ELSE [written |-> TRUE,
                           images |-> [k \in 1..Cardinality(built) |->
                                         ImageRecord(source_images_of(built)[k])],
                           generated |-> 1]
  /\ now = 2
  /\ BuildReset

\* process_gallery is entered: the worker count is fixed, the source images
\* are listed and one process_image call per image is submitted.
\* os.cpu_count() is consulted only when jobs is not positive (c = 0 stands
\* for None, and for "not consulted").
StartBuild(f, j, c) ==
  /\ pc = "idle"
  /\ j > 0 => c = 0
  /\ force' = f
  /\ jobs' = j
  /\ cpu_count' = c
  /\ max_workers' = max_workers_of(j, c)
  /\ source_images' = source_images_of(source)
  /\ fut' = [i \in Images |-> IF i \in source THEN "pending" ELSE "none"]
  /\ result' = [i \in Images |-> <<>>]
  /\ stage' = [i \in Images |-> "none"]
  /\ collected' = {}
  /\ exc' = FALSE
  /\ manifest_images' = <<>>
  /\ processed' = 0
  /\ skipped' = 0
  /\ errors' = 0
  /\ removed' = 0
  /\ faults' = 0
  /\ pc' = "pool"
  /\ UNCHANGED <<diskVars, run, edited, prevManifest>>
  /\ UNCHANGED <<gateVars, configVars, sideVars>>

\* A worker thread takes the oldest queued call.
JobStart(i) ==
  /\ pc = "pool"
  /\ fut[i] = "pending"
  /\ \A k \in 1..Len(source_images) :
       source_images[k] = i => \A m \in 1..(k - 1) : fut[source_images[m]] # "pending"
  /\ worker_free(Running, max_workers)
  /\ fut' = [fut EXCEPT ![i] = "running"]
  /\ stage' = [stage EXCEPT ![i] = "check"]
  /\ UNCHANGED <<diskVars, optionVars, pc, source_images, result, collected, exc,
                 loopVars, removed, historyVars>>
  /\ UNCHANGED <<gateVars, configVars, sideVars>>

\* The running call process_image(i) executes its next statement: the
\* staleness check, Image.open, or the save of one size class.  A stat or a
\* save may fail, at most MaxFaults times per build and only where the call
\* reaches it.
JobStep(i) ==
  /\ pc = "pool"
  /\ fut[i] = "running"
  /\ \E fails \in BOOLEAN :
       LET r == process_image(stage[i], mtime[i], i, out[i], force, i \in corrupt,
                              fails, now)
       IN /\ fails => /\ faults < MaxFaults
                      /\ \/ stage[i] = "check" /\ ~force
                         \/ stage[i] \in SizeNames
          /\ fut' = [fut EXCEPT ![i] = r.status]
          /\ stage' = [stage EXCEPT ![i] = r.stage]
          /\ result' = [result EXCEPT ![i] =
                          IF r.status = "processed" THEN <<r.data>> ELSE <<>>]
          /\ out' = [out EXCEPT ![i] = r.outs]
          /\ faults' = IF fails THEN faults + 1 ELSE faults
  /\ UNCHANGED <<source, mtime, corrupt, partial, manifest, now>>
  /\ UNCHANGED <<optionVars, pc, source_images, collected, exc, loopVars, removed,
                 run, edited, prevManifest>>
  /\ UNCHANGED <<gateVars, configVars, sideVars>>

\* One turn of "for future in as_completed(futures)": future.result() either
\* re-raises the call's exception or returns (status, data).
Collect(i) ==
  /\ pc = "pool"
  /\ ~exc
  /\ i \notin collected
  /\ fut[i] \in Outcomes \cup {"raised"}
  /\ collected' = collected \cup {i}
  /\ exc' = (fut[i] = "raised")
  /\ processed' = IF fut[i] = "processed" THEN processed + 1 ELSE processed
  /\ manifest_images' = IF fut[i] = "processed"
                        THEN Append(manifest_images, result[i][1])
                        ELSE manifest_images
  /\ skipped' = IF fut[i] = "skipped" THEN skipped + 1 ELSE skipped
  /\ errors' = IF fut[i] = "error" THEN errors + 1 ELSE errors
  /\ UNCHANGED <<diskVars, optionVars, pc, source_images, fut, result, stage, removed,
                 historyVars>>
  /\ UNCHANGED <<gateVars, configVars, sideVars>>

\* The with block is left: the executor's shutdown waits for every call,
\* then the build goes on, or the pending exception leaves process_gallery.
PoolExit ==
  /\ pc = "pool"
  /\ exc \/ as_completed_exhausted(collected, Range(source_images))
  /\ \A i \in Images : fut[i] \notin {"pending", "running"}
  /\ pc' = IF exc THEN "failed" ELSE "clean"
  /\ UNCHANGED <<diskVars, optionVars, source_images, fut, result, stage, collected, exc,
                 loopVars, removed, historyVars>>
  /\ UNCHANGED <<gateVars, configVars, sideVars>>

\* Step e of the processing flow: clean_orphans with the ids of the current
\* source images.
CleanOrphans ==
  /\ pc = "clean"
  /\ LET c == clean_orphans(out, Range(source_images))
     IN /\ out' = c.files
        /\ removed' = c.removed
  /\ pc' = "manifest"
  /\ UNCHANGED <<source, mtime, corrupt, partial, manifest, now>>
  /\ UNCHANGED <<optionVars, source_images, fut, result, stage, collected, exc, loopVars,
                 historyVars>>
  /\ UNCHANGED <<gateVars, configVars, sideVars>>

\* Step f of the processing flow: images.json is written with the list the
\* collection loop built (manifest_images: the record of each image whose
\* outcome was processed, in the order the results were collected) and a
\* fresh generation time.
WriteManifest ==
  /\ pc = "manifest"
  /\ manifest' = [written |-> TRUE, images |-> manifest_images, generated |-> now]
  /\ pc' = "done"
  /\ UNCHANGED <<source, mtime, corrupt, out, partial, now>>
  /\ UNCHANGED <<optionVars, source_images, fut, result, stage, collected, exc, loopVars,
                 removed, historyVars>>
  /\ UNCHANGED <<gateVars, configVars, sideVars>>

\* Between the builds time passes and the operator leaves the sources alone,
EditNothing ==
  /\ pc = "done"
  /\ run = "first"
  /\ run' = "second"
  /\ edited' = FALSE
  /\ prevManifest' = manifest
  /\ now' = now + 1
  /\ pc' = "idle"
  /\ UNCHANGED <<source, mtime, corrupt, out, partial, manifest>>
  /\ UNCHANGED <<optionVars, source_images, fut, result, stage, collected, exc, loopVars,
                 removed, faults>>
  /\ UNCHANGED <<gateVars, configVars, sideVars>>

\* or saves one source image again,
TouchSource(i) ==
  /\ pc = "done"
  /\ run = "first"
  /\ i \in source
  /\ run' = "second"
  /\ edited' = TRUE
  /\ prevManifest' = manifest
  /\ now' = now + 1
  /\ mtime' = [mtime EXCEPT ![i] = now + 1]
  /\ pc' = "idle"
  /\ UNCHANGED <<source, corrupt, out, partial, manifest>>
  /\ UNCHANGED <<optionVars, source_images, fut, result, stage, collected, exc, loopVars,
                 removed, faults>>
  /\ UNCHANGED <<gateVars, configVars, sideVars>>

\* or deletes one.
RemoveSource(i) ==
  /\ pc = "done"
  /\ run = "first"
  /\ i \in source
  /\ run' = "second"
  /\ edited' = TRUE
  /\ prevManifest' = manifest
  /\ now' = now + 1
  /\ source' = source \ {i}
  /\ mtime' = [mtime EXCEPT ![i] = 0]
  /\ corrupt' = corrupt \ {i}
  /\ pc' = "idle"
  /\ UNCHANGED <<out, partial, manifest>>
  /\ UNCHANGED <<optionVars, source_images, fut, result, stage, collected, exc, loopVars,
                 removed, faults>>
  /\ UNCHANGED <<gateVars, configVars, sideVars>>

\* The operator interrupts the run: the process ends where it stands.  A
\* call that is in the save loop may have the file of its next size class
\* open at its final path and incomplete.
Interrupt ==
  /\ pc = "pool"
  /\ \E saving \in SUBSET {i \in Running : stage[i] \in SizeNames} :
       /\ out' = [i \in Images |->
                    [k \in 1..Len(SIZES) |->
                       IF i \in saving /\ k = SizeIndex(stage[i]) THEN now ELSE out[i][k]]]
       /\ partial' = {<<i, SizeIndex(stage[i])>> : i \in saving}
  /\ pc' = "interrupted"
  /\ UNCHANGED <<source, mtime, corrupt, manifest, now>>
  /\ UNCHANGED <<optionVars, source_images, fut, result, stage, collected, exc, loopVars,
                 removed, historyVars>>
  /\ UNCHANGED <<gateVars, configVars, sideVars>>

BuildNext ==
  \/ \E f \in BOOLEAN, j \in 0..MaxJobs, c \in 0..MaxCpu : StartBuild(f, j, c)
  \/ \E i \in Images : JobStart(i)
  \/ \E i \in Images : JobStep(i)
  \/ \E i \in Images : Collect(i)
  \/ PoolExit
  \/ CleanOrphans
  \/ WriteManifest

\* One build of a gallery.
Spec == BuildInit /\ [][BuildNext]_vars

RebuildNext ==
  \/ BuildNext
  \/ EditNothing
  \/ \E i \in Images : TouchSource(i)
  \/ \E i \in Images : RemoveSource(i)

\* A first build of a gallery never built, a change of the sources (or none)
\* and a second build.
SpecRebuild == FreshInit /\ [][RebuildNext]_vars

InterruptNext == BuildNext \/ Interrupt

\* One build that the operator may interrupt.
SpecInterrupt == BuildInit /\ [][InterruptNext]_vars

(***************************************************************************)
(* Claims about the build.                                                 *)
(***************************************************************************)
\* C1 (as claimed): a second build with force off over unchanged sources
\* processes no image, skips every source image and writes a manifest with
\* the image records of the first build's manifest (only the generation time
\* differs).
C1_RoundTrip ==
  (/\ pc = "done"
   /\ run = "second"
   /\ ~edited
   /\ ~force)
    => /\ processed = 0
       /\ \A i \in source : fut[i] = "skipped"
       /\ manifest.images = prevManifest.images

\* C2 (as claimed): no failure of a job leaves process_gallery as an
\* exception, and at the end of the batch every image has its own outcome:
\* the manifest lists every image but the failed ones.
C2_FailuresIsolated ==
  /\ pc # "failed"
  /\ \A i \in Images : fut[i] # "raised"
  /\ pc = "done" =>
       /\ \A i \in Range(source_images) : fut[i] \in Outcomes
       /\ processed + skipped + errors = Len(source_images)
       /\ Len(manifest.images) = Len(source_images) - errors

\* C7: whenever the manifest is written, every submitted job has finished
\* with an outcome and its result has been collected.
C7_ManifestAfterDrain ==
  [][manifest' # manifest =>
       \A i \in Range(source_images) : fut[i] \in Outcomes /\ i \in collected]_vars

\* A manifest written by a build with several workers whose batch had a
\* processed, a skipped and a failed image.
C7_Witness ==
  /\ pc = "done"
  /\ max_workers > 1
  /\ manifest.generated = now
  /\ processed > 0
  /\ skipped > 0
  /\ errors > 0

\* C8: never more than jobs calls of process_image run at once when jobs is
\* positive, and never more than the CPU count when jobs is 0.
C8_BoundedParallelism ==
  /\ jobs > 0 => Cardinality(Running) <= jobs
  /\ (jobs = 0 /\ cpu_count > 0) => Cardinality(Running) <= cpu_count

\* The pool is full: as many calls run as -j allows while another waits.
C8_Witness ==
  /\ jobs > 0
  /\ Cardinality(Running) = jobs
  /\ \E i \in Images : fut[i] = "pending"

\* C14: after a gallery has been processed, every image with outcome
\* processed, and every id the manifest lists, has its output file in each
\* size-class directory, and no image with outcome error is in the manifest.
C14_ProcessedHaveAllVariants ==
  pc = "done" =>
    /\ \A i \in Range(source_images) :
         fut[i] = "processed" =>
           /\ i \in IdsOf(manifest.images)
           /\ \A k \in 1..Len(SIZES) : out[i][k] # 0
    /\ \A i \in IdsOf(manifest.images) : \A k \in 1..Len(SIZES) : out[i][k] # 0
    /\ \A k, m \in 1..Len(manifest.images) :
         manifest.images[k].id = manifest.images[m].id => k = m
    /\ \A i \in Range(source_images) :
         fut[i] = "error" => i \notin IdsOf(manifest.images)

\* A finished build with a processed image, and an image the earlier build
\* had listed whose re-encoding failed at a write.
C14_Witness ==
  /\ pc = "done"
  /\ processed > 0
  /\ manifest.images # <<>>
  /\ \E i \in source \ corrupt : fut[i] = "error" /\ out[i][Len(SIZES)] # 0

\* The position of an image in the build order of the gallery.
BuildRank(i) == CHOOSE k \in 1..Len(source_images) : source_images[k] = i

\* C19 (as claimed): the manifest lists its images in the build order of the
\* source images, whatever the number of workers and the order in which
\* their jobs completed and were collected.
C19_StableOrder ==
  pc = "done" =>
    \A k, m \in 1..Len(manifest.images) :
      k < m => BuildRank(manifest.images[k].id) < BuildRank(manifest.images[m].id)

\* C10 (as claimed): after an interrupt no file at a final path is incomplete.
C10_NoPartialFile ==
  pc = "interrupted" => partial = {}

(***************************************************************************)
(* SpecOrphans: clean_orphans applied, twice in a row, to every output     *)
(* tree over Images (each file present or absent) and every set of valid   *)
(* ids.                                                                    *)
(***************************************************************************)
OrphanTrees == [Images -> [1..Len(SIZES) -> 0..1]]

OrphansInit ==
  /\ oFiles \in OrphanTrees
  /\ oValid \in SUBSET Images
  /\ oOriginal = oFiles
  /\ oBefore = oFiles
  /\ oRemoved = 0
  /\ oCalls = 0
  /\ GateIdle
  /\ ConfigIdle
  /\ ExtraIdle
  /\ BuildIdle
  /\ ViewerIdle
  /\ RunIdle
  /\ ResizeIdle

\* One call of clean_orphans(output_dir, valid_ids); nothing else touches the
\* output tree between the first call and the second.
OrphansClean ==
  /\ oCalls < 2
  /\ LET cleaned == clean_orphans(oFiles, oValid)
     IN /\ oFiles' = cleaned.files
        /\ oRemoved' = cleaned.removed
  /\ oBefore' = oFiles
  /\ oCalls' = oCalls + 1
  /\ UNCHANGED <<oValid, oOriginal>>
  /\ UNCHANGED <<gateVars, configVars, buildVars, viewerVars, runVars, resizeVars>>
  /\ UNCHANGED extraVars

OrphansNext == OrphansClean

SpecOrphans == OrphansInit /\ [][OrphansNext]_vars

\* C6: after a reconciliation no output file has a stem outside the valid
\* ids and every output file of a valid id is still there; a reconciliation
\* repeated at once deletes nothing (and reports zero removals).
C6_ReconcileExact ==
  oCalls >= 1 =>
    /\ \A i \in Images \ oValid : oFiles[i] = NoOutputs
    /\ \A i \in oValid : oFiles[i] = oOriginal[i]
    /\ oCalls = 2 => (oFiles = oBefore /\ oRemoved = 0)

\* C17 (as claimed): the reconciliation returns the number of distinct
\* orphaned ids whose files it removed, whatever files the tree held.
C17_CountsDistinctIds ==
  oCalls = 1 =>
    oRemoved = Cardinality({i \in Images \ oValid : oOriginal[i] # NoOutputs})

\* Two calls were made on a tree that held an orphan with files in some but
\* not all size directories and a valid id with files.
C6_Witness ==
  /\ oCalls = 2
  /\ \E i \in Images \ oValid :
       /\ oOriginal[i][1] = 0
       /\ \E k \in 1..Len(SIZES) : oOriginal[i][k] # 0
  /\ \E i \in oValid : oOriginal[i] # NoOutputs /\ oFiles[i] = oOriginal[i]

(***************************************************************************)
(* SpecViewer: the gallery view of the web application.  The manifests are *)
(* the images.json files the builder wrote for the galleries of the site   *)
(* (keys images, generated and sizes).                                     *)
(***************************************************************************)
\* Number of galleries of the site.
MaxGalleries == 3

GalleryPool == <<"bw", "colors", "street", "travel", "night">>

Galleries == {GalleryPool[k] : k \in 1..MaxGalleries}

GalleryImages(g) ==
  CASE g = "bw" -> <<"a", "b">>
    [] g = "colors" -> <<"c", "d">>
    [] g = "street" -> <<"a", "c", "d">>
    [] g = "travel" -> <<>>
    [] g = "night" -> <<"b">>
    [] OTHER -> <<>>

\* The manifest fetched for a gallery.
ManifestOf(g) ==
  [images |-> [k \in 1..Len(GalleryImages(g)) |-> ImageRecord(GalleryImages(g)[k])],
   generated |-> 1,
   sizes |-> [thumb |-> 400, medium |-> 800, full |-> 1600]]

\* Names that every plain object inherits from Object.prototype, among the
\* gallery ids a hash can name; UnknownGallery is an id that is neither an
\* item of the configuration nor inherited.
InheritedNames == {"valueOf"}

UnknownGallery == "nope"

HashGalleries == Galleries \cup InheritedNames \cup {UnknownGallery}

\* $config.galleries.items[id] taken as a condition (gallery.js:69,
\* App.svelte:86): an item is an object and an inherited name a function.
items_entry_truthy(id) == id \in Galleries \/ id \in InheritedNames

\* $cache[galleryId] taken as a condition (gallery.js:22): a cached manifest
\* is an object and an inherited name a function.
cache_entry_truthy(cache, galleryId) == galleryId \in cache \/ galleryId \in InheritedNames

\* currentManifest: $cache[$id] || null, for an id the cache test accepts.
\* What the cache inherits under a name is a function: it has no images and
\* no gallery property.
current_manifest(id) ==
  IF id \in InheritedNames THEN [inherited |-> "function"] ELSE ManifestOf(id)

\* manifest.images, <<>> standing for undefined where only the length counts.
images_of(currentManifest) ==
  IF "images" \in DOMAIN currentManifest THEN currentManifest.images ELSE <<>>

\* theme.json breakpoints, sorted by minWidth descending, and the window
\* widths the user resizes between.
Breakpoints == <<1600, 1440, 1280, 1024, 768, 0>>

WindowWidths == {500, 1300, 1700}

\* currentLayout: the first breakpoint with width >= minWidth.
currentLayout(width) ==
  LET RECURSIVE find(_)
      find(k) == IF k > Len(Breakpoints) THEN Breakpoints[Len(Breakpoints)]
                 ELSE IF width >= Breakpoints[k] THEN Breakpoints[k]
                 ELSE find(k + 1)
  IN find(1)

\* The choices Math.random makes in shuffle: for each position i from the
\* last down to the second, an index j <= i.
ShuffleChoices(n) == {r \in [2..n -> 1..n] : \A i \in 2..n : r[i] <= i}

\* shuffle(array): Fisher-Yates, swapping result[i] and result[j] for i from
\* the last position down to the second.
shuffle(array, r) ==
  LET swap(seq, i, j) == [seq EXCEPT ![i] = seq[j], ![j] = seq[i]]
      RECURSIVE loop(_, _)
      loop(seq, i) == IF i < 2 THEN seq ELSE loop(swap(seq, i, r[i]), i - 1)
  IN loop(array, Len(array))

\* manifestId = currentManifest.gallery || JSON.stringify(images?.length)
\* (JSON.stringify(undefined) is undefined when the manifest has no images).
manifest_id(currentManifest) ==
  IF "gallery" \in DOMAIN currentManifest /\ currentManifest["gallery"] # ""
  THEN currentManifest["gallery"]
  ELSE IF "images" \in DOMAIN currentManifest
  THEN ToString(Len(currentManifest.images))
  ELSE "undefined"

\* The $effect of Gallery.svelte for a manifest and a layout that are both
\* available; r holds the random choices reshuffle would use.  The result is
\* the component's state after the effect.  The clearLoadedImages it calls is
\* the one of loadedImages.svelte.js (Gallery.svelte:7): it empties that
\* module's own set, which no component adds to or reads.  The set that
\* Photo's handleLoad fills and the Lightbox reads is the writable store of
\* loadedImages.js (imageIds here), which the effect leaves as it is.
\* For a manifest without images reshuffle throws at shuffle(undefined),
\* after the previous values have been updated: the displayed list stays.
gallery_effect(currentManifest, layoutMinWidth, prevId, shown, r) ==
  LET manifestId == manifest_id(currentManifest)
      manifestChanged == manifestId # prevId
  IN [prevManifestId |-> manifestId,
      prevLayoutMinWidth |-> layoutMinWidth,
      shuffledImages |-> IF manifestChanged /\ "images" \in DOMAIN currentManifest
                         THEN shuffle(currentManifest.images, r)
                         ELSE shown]

ViewerInit ==
  /\ ViewerIdle
  /\ GateIdle
  /\ ConfigIdle
  /\ ExtraIdle
  /\ BuildIdle
  /\ OrphansIdle
  /\ RunIdle
  /\ ResizeIdle

\* The Gallery component exists once the first load has succeeded: App shows
\* it when loading is false, error is null and the manifest is not null.
Mounted == vApp = "shown"

\* The effect of the mounted Gallery runs for the manifest of gallery g and
\* the layout lay.
EffectRuns(g, lay) ==
  \E r \in ShuffleChoices(Len(images_of(current_manifest(g)))) :
    LET after == gallery_effect(current_manifest(g), lay, prevManifestId, shuffledImages, r)
    IN /\ prevManifestId' = after.prevManifestId
       /\ prevLayoutMinWidth' = after.prevLayoutMinWidth
       /\ shuffledImages' = after.shuffledImages

\* currentGalleryId.set(galleryId) at the end of a switchGallery call whose
\* manifest is in the cache: the manifest prop of a mounted Gallery changes
\* and its effect runs; without a Gallery only the store changes.
ApplySwitch(g) ==
  /\ currentGalleryId' = g
  /\ IF Mounted
     THEN /\ EffectRuns(g, layout)
          /\ vLast' = IF g # currentGalleryId THEN "switch" ELSE "same"
     ELSE /\ UNCHANGED <<prevManifestId, prevLayoutMinWidth, shuffledImages>>
          /\ vLast' = "unmounted"

\* The application starts in a window of the given width, with hashGallery
\* named by the URL hash ("null": none) and default the configured default
\* gallery: the configuration has been loaded and initGallery calls
\* switchGallery for hashGallery when the items hold something truthy under
\* that name, and for the default otherwise.  loadManifest tests the cache
\* for truthiness: for an inherited name it returns at once, the current id
\* is set, loading becomes false and the Gallery is mounted on what the
\* cache inherits; otherwise the call waits for its manifest.
InitGallery(hashGallery, default, width) ==
  /\ vApp = "none"
  /\ layout' = currentLayout(width)
  /\ LET galleryId == IF hashGallery # "null" /\ items_entry_truthy(hashGallery)
                      THEN hashGallery ELSE default
     IN IF cache_entry_truthy(manifestCache, galleryId)
        THEN /\ vApp' = "shown"
             /\ vInit' = "null"
             /\ currentGalleryId' = galleryId
             /\ EffectRuns(galleryId, layout')
             /\ vLast' = "init"
        ELSE /\ vApp' = "loading"
             /\ vInit' = galleryId
             /\ vLast' = "start"
             /\ UNCHANGED <<currentGalleryId, prevManifestId, prevLayoutMinWidth,
                            shuffledImages>>
  /\ UNCHANGED <<manifestCache, imageIds, vPending>>
  /\ UNCHANGED <<gateVars, configVars, buildVars, orphanVars, runVars, resizeVars, lightboxVars>>
  /\ UNCHANGED extraVars

\* The manifest request of initGallery is answered.  On success the manifest
\* is cached, the current id set, loading becomes false and the Gallery is
\* mounted on the current manifest and the current layout, where its effect
\* runs for the first time; on failure onMount's catch sets error and no
\* Gallery is ever mounted.
InitGallerySettles(ok) ==
  /\ vInit # "null"
  /\ vInit' = "null"
  /\ IF ok
     THEN /\ manifestCache' = manifestCache \cup {vInit}
          /\ currentGalleryId' = vInit
          /\ vApp' = "shown"
          /\ EffectRuns(vInit, layout)
          /\ vLast' = "init"
     ELSE /\ vApp' = "error"
          /\ vLast' = "failed"
          /\ UNCHANGED <<manifestCache, currentGalleryId, prevManifestId,
                         prevLayoutMinWidth, shuffledImages>>
  /\ UNCHANGED <<layout, imageIds, vPending>>
  /\ UNCHANGED <<gateVars, configVars, buildVars, orphanVars, runVars, resizeVars, lightboxVars>>
  /\ UNCHANGED extraVars

\* A gallery is selected in the header or named by a hashchange, at any time
\* after the configuration has been loaded.  handleHashChange calls
\* switchGallery only when the items hold something truthy under the name
\* (the selector offers items only).  loadManifest tests the cache for
\* truthiness: switchGallery applies a cached manifest, or what the cache
\* inherits under the name, at once and otherwise waits for the manifest it
\* requests.
SwitchGallery(g) ==
  /\ vApp # "none"
  /\ items_entry_truthy(g)
  /\ IF cache_entry_truthy(manifestCache, g)
     THEN /\ ApplySwitch(g)
          /\ UNCHANGED vPending
     ELSE /\ BagCardinality(vPending) < MaxPending
          /\ vPending' = vPending (+) SetToBag({g})
          /\ vLast' = "request"
          /\ UNCHANGED <<currentGalleryId, prevManifestId, prevLayoutMinWidth,
                         shuffledImages>>
  /\ UNCHANGED <<manifestCache, layout, imageIds, vApp, vInit>>
  /\ UNCHANGED <<gateVars, configVars, buildVars, orphanVars, runVars, resizeVars, lightboxVars>>
  /\ UNCHANGED extraVars

\* The manifest request of one waiting switchGallery call is answered, in
\* any order with the other requests, those of other calls for the same
\* gallery included: on success the manifest is cached and the call applies
\* itself; on failure the call rejects and changes nothing.
SwitchGallerySettles(g, ok) ==
  /\ BagIn(g, vPending)
  /\ vPending' = vPending (-) SetToBag({g})
  /\ IF ok
     THEN /\ manifestCache' = manifestCache \cup {g}
          /\ ApplySwitch(g)
     ELSE /\ vLast' = "rejected"
          /\ UNCHANGED <<manifestCache, currentGalleryId, prevManifestId,
                         prevLayoutMinWidth, shuffledImages>>
  /\ UNCHANGED <<layout, imageIds, vApp, vInit>>
  /\ UNCHANGED <<gateVars, configVars, buildVars, orphanVars, runVars, resizeVars, lightboxVars>>
  /\ UNCHANGED extraVars

\* A resize event finds the window at the given width, across a breakpoint
\* from the layout in use.  The width store listens for resize events only
\* while it has a subscriber, and its only subscriber is the mounted Gallery:
\* before that the store keeps the width it was created with.  The effect of
\* the Gallery sees the same manifest id and a new layout, and only
\* repositions the displayed list.
Resize(width) ==
  /\ Mounted
  /\ currentLayout(width) # layout
  /\ layout' = currentLayout(width)
  /\ EffectRuns(currentGalleryId, layout')
  /\ vLast' = "resize"
  /\ UNCHANGED <<manifestCache, currentGalleryId, imageIds, vApp, vInit, vPending>>
  /\ UNCHANGED <<gateVars, configVars, buildVars, orphanVars, runVars, resizeVars, lightboxVars>>
  /\ UNCHANGED extraVars

\* A displayed photo whose file exists under the current gallery's path
\* finishes loading: handleLoad marks it loaded.
HandleLoad(id) ==
  /\ Mounted
  /\ id \in IdsOf(shuffledImages)
  /\ id \in IdsOf(ManifestOf(currentGalleryId).images)
  /\ currentGalleryId \in Galleries
  /\ id \notin imageIds
  /\ imageIds' = imageIds \cup {id}
  /\ vLast' = "load"
  /\ UNCHANGED <<manifestCache, currentGalleryId, layout, prevManifestId,
                 prevLayoutMinWidth, shuffledImages, vApp, vInit, vPending>>
  /\ UNCHANGED <<gateVars, configVars, buildVars, orphanVars, runVars, resizeVars, lightboxVars>>
  /\ UNCHANGED extraVars

\* The logo is clicked at the top of the page: triggerReshuffle.  For a
\* manifest without images reshuffle throws at shuffle(undefined) and the
\* displayed list stays.
TriggerReshuffle ==
  /\ Mounted
  /\ LET currentManifest == current_manifest(currentGalleryId)
     IN IF "images" \in DOMAIN currentManifest
        THEN \E r \in ShuffleChoices(Len(currentManifest.images)) :
               shuffledImages' = shuffle(currentManifest.images, r)
        ELSE UNCHANGED shuffledImages
  /\ vLast' = "reshuffle"
  /\ UNCHANGED <<manifestCache, currentGalleryId, layout, prevManifestId,
                 prevLayoutMinWidth, imageIds, vApp, vInit, vPending>>
  /\ UNCHANGED <<gateVars, configVars, buildVars, orphanVars, runVars, resizeVars, lightboxVars>>
  /\ UNCHANGED extraVars

\* get(loadedImageArray): the loaded ids in the order they were marked, which
\* the set does not record: any order of its members.
LoadedArrays(ids) ==
  {a \in [1..Cardinality(ids) -> ids] : \A k, m \in 1..Cardinality(ids) : a[k] = a[m] => k = m}

\* shuffled.indexOf(startId), 0-based, -1 when absent.
indexOf(array, id) ==
  IF id \in Range(array)
  THEN (CHOOSE k \in 1..Len(array) : array[k] = id /\ \A m \in 1..(k - 1) : array[m] # id) - 1
  ELSE -1

\* generateSequence(startId) on the loaded ids allImages with the random
\* choices r of shuffle: the new sequence.
generateSequence(startId, allImages, r) ==
  LET shuffled == shuffle(allImages, r)
      startIndex == indexOf(shuffled, startId)
  IN IF startIndex > 0
     THEN <<startId>> \o [k \in 1..(Len(shuffled) - 1) |->
                            IF k <= startIndex THEN shuffled[k] ELSE shuffled[k + 1]]
     ELSE shuffled

\* sequence[currentIndex] || null
currentImageId == IF currentIndex >= 0 /\ currentIndex < Len(sequence)
                  THEN sequence[currentIndex + 1] ELSE "null"

\* A displayed photo is clicked (its div takes clicks whether or not its
\* image has loaded, and whether or not the lightbox is open):
\* handlePhotoClick sets the start image and opens the lightbox.  The
\* Lightbox effect reads open and startImageId: it generates a new sequence
\* when one of them has changed and does not run when both are as before.
HandlePhotoClick(id) ==
  /\ Mounted
  /\ id \in IdsOf(shuffledImages)
  /\ lightboxStartImageId' = id
  /\ lightboxOpen' = TRUE
  /\ IF lightboxOpen /\ lightboxStartImageId = id
     THEN UNCHANGED <<sequence, currentIndex>>
     ELSE /\ \E allImages \in LoadedArrays(imageIds) :
               \E r \in ShuffleChoices(Len(allImages)) :
                 sequence' = generateSequence(id, allImages, r)
          /\ currentIndex' = 0
  /\ vLast' = "click"
  /\ UNCHANGED <<manifestCache, currentGalleryId, layout, prevManifestId,
                 prevLayoutMinWidth, shuffledImages, imageIds, vApp, vInit, vPending>>
  /\ UNCHANGED <<gateVars, configVars, buildVars, orphanVars, runVars, resizeVars>>
  /\ UNCHANGED extraVars

\* closeLightbox (Escape, the close button or the backdrop).
CloseLightbox ==
  /\ lightboxOpen
  /\ lightboxOpen' = FALSE
  /\ lightboxStartImageId' = "null"
  /\ vLast' = "close"
  /\ UNCHANGED <<sequence, currentIndex>>
  /\ UNCHANGED <<manifestCache, currentGalleryId, layout, prevManifestId,
                 prevLayoutMinWidth, shuffledImages, imageIds, vApp, vInit, vPending>>
  /\ UNCHANGED <<gateVars, configVars, buildVars, orphanVars, runVars, resizeVars>>
  /\ UNCHANGED extraVars

\* showNext (ArrowRight or a click on the image).
ShowNext ==
  /\ lightboxOpen
  /\ currentIndex' = IF currentIndex < Len(sequence) - 1 THEN currentIndex + 1 ELSE 0
  /\ vLast' = "next"
  /\ UNCHANGED <<lightboxOpen, lightboxStartImageId, sequence>>
  /\ UNCHANGED <<manifestCache, currentGalleryId, layout, prevManifestId,
                 prevLayoutMinWidth, shuffledImages, imageIds, vApp, vInit, vPending>>
  /\ UNCHANGED <<gateVars, configVars, buildVars, orphanVars, runVars, resizeVars>>
  /\ UNCHANGED extraVars

\* showPrev (ArrowLeft).
ShowPrev ==
  /\ lightboxOpen
  /\ currentIndex' = IF currentIndex > 0 THEN currentIndex - 1 ELSE Len(sequence) - 1
  /\ vLast' = "prev"
  /\ UNCHANGED <<lightboxOpen, lightboxStartImageId, sequence>>
  /\ UNCHANGED <<manifestCache, currentGalleryId, layout, prevManifestId,
                 prevLayoutMinWidth, shuffledImages, imageIds, vApp, vInit, vPending>>
  /\ UNCHANGED <<gateVars, configVars, buildVars, orphanVars, runVars, resizeVars>>
  /\ UNCHANGED extraVars

ViewerNext ==
  \/ \E h \in HashGalleries \cup {"null"}, d \in Galleries, w \in WindowWidths :
       InitGallery(h, d, w)
  \/ \E ok \in BOOLEAN : InitGallerySettles(ok)
  \/ \E g \in HashGalleries : SwitchGallery(g)
  \/ \E g \in Galleries, ok \in BOOLEAN : SwitchGallerySettles(g, ok)
  \/ \E w \in WindowWidths : Resize(w)
  \/ \E id \in IdsOf(shuffledImages) : HandleLoad(id)
  \/ TriggerReshuffle

SpecViewer == ViewerInit /\ [][ViewerNext]_vars

LightboxNext ==
  \/ \E h \in HashGalleries \cup {"null"}, d \in Galleries, w \in WindowWidths :
       InitGallery(h, d, w)
  \/ \E ok \in BOOLEAN : InitGallerySettles(ok)
  \/ \E id \in IdsOf(shuffledImages) : HandleLoad(id)
  \/ \E id \in IdsOf(shuffledImages) : HandlePhotoClick(id)
  \/ CloseLightbox
  \/ ShowNext
  \/ ShowPrev

\* The viewer of one gallery with its lightbox.
SpecLightbox == ViewerInit /\ [][LightboxNext]_vars

\* C9 (as claimed): right after a switch to another gallery the loaded-image
\* set is empty and the displayed list holds exactly the images of the new
\* gallery's manifest, whatever the image counts of the two galleries.
C9_SwitchRebuilds ==
  vLast = "switch" =>
    /\ imageIds = {}
    /\ Len(shuffledImages) = Len(ManifestOf(currentGalleryId).images)
    /\ IdsOf(shuffledImages) = IdsOf(ManifestOf(currentGalleryId).images)

\* C20 (as claimed): when the lightbox has been opened by a click on photo X,
\* its sequence is a duplicate-free ordering of exactly the loaded image ids
\* with X first, and the image shown is X, whether or not X had loaded.
C20_ClickedImageFirst ==
  vLast = "click" =>
    /\ \A k, m \in 1..Len(sequence) : sequence[k] = sequence[m] => k = m
    /\ Range(sequence) = imageIds
    /\ Len(sequence) >= 1
    /\ sequence[1] = lightboxStartImageId
    /\ currentImageId = lightboxStartImageId

(***************************************************************************)
(* SpecRun: one run of the builder over the Processing Flow: discover the  *)
(* galleries, update site.json, then for each gallery process its images,  *)
(* clean its orphaned files and write its manifest, then clean the         *)
(* orphaned gallery directories and print the summary.  The batch of a     *)
(* gallery, which Spec models call by call, is one step here, and what the *)
(* steps find under the output root and may write there is part of the     *)
(* state.                                                                  *)
(***************************************************************************)
\* Most entries in the source root and in the output root of a run.
MaxRunDirs == 2
RunNamePool ==
  <<<<"b", "w">>, <<".", "c">>, <<"c", "-", "o", "2">>, <<"B", "W">>, <<"b", "_", "w">>>>

RunNames == {RunNamePool[k] : k \in 1..(MaxRunDirs + 2)}

\* The source root: each name is a directory (TRUE) or a file.
RunEntriesPool ==
  UNION { [D -> BOOLEAN] : D \in {X \in SUBSET RunNames : Cardinality(X) <= MaxRunDirs} }

\* Every gallery of the source root holds the one image RunImage, last
\* modified at RunSourceTime; an output saved during the run gets the time
\* RunClock.  RunOrphanImage is an id without a source file.
RunImage == ImagePool[1]

RunOrphanImage == ImagePool[Len(ImagePool)]

RunSourceTime == MaxTime - 1

RunClock == MaxTime

AllSizes == 1..Len(SIZES)

\* An entry of the output root.  For a directory: w, whether the directory
\* itself and the plain file in it can be written; sizes, the size
\* directories it holds (as indices of SIZES); sw, the size directories
\* that, with their files, can be written; files, for each image id the
\* times of its files in the three size directories (0: no such file);
\* json, whether it holds images.json.
PlainFile ==
  [dir |-> FALSE, w |-> TRUE, sizes |-> {}, sw |-> {}, files |-> EmptyObject, json |-> FALSE]

NewDirectory ==
  [dir |-> TRUE, w |-> TRUE, sizes |-> {}, sw |-> {}, files |-> EmptyObject, json |-> FALSE]

\* What the size directories of an output directory that was built before
\* hold: current outputs, stale outputs, or current outputs and those of an
\* image whose source is gone.
RunFilesPool ==
  {Put(EmptyObject, RunImage, [k \in AllSizes |-> RunSourceTime]),
   Put(EmptyObject, RunImage, [k \in AllSizes |-> RunSourceTime - 1]),
   Put(Put(EmptyObject, RunImage, [k \in AllSizes |-> RunSourceTime]),
       RunOrphanImage, [k \in AllSizes |-> RunSourceTime])}

\* The directories of the output root before the run: empty ones and built
\* ones, each wholly writable or wholly read-only, and built ones where only
\* the directory or only its size directories can be written.
RunDirPool ==
  {[NewDirectory EXCEPT !.w = w] : w \in BOOLEAN}
  \cup {[dir |-> TRUE, w |-> w, sizes |-> AllSizes, sw |-> IF w THEN AllSizes ELSE {},
         files |-> f, json |-> TRUE] : w \in BOOLEAN, f \in RunFilesPool}
  \cup {[dir |-> TRUE, w |-> w, sizes |-> AllSizes, sw |-> IF w THEN {} ELSE AllSizes,
         files |-> f, json |-> TRUE] :
           w \in BOOLEAN, f \in {g \in RunFilesPool : RunOrphanImage \in DOMAIN g}}

\* Whether everything under the output root entries can be written.
all_writable(entries) ==
  \A n \in DOMAIN entries : entries[n].dir => entries[n].w /\ entries[n].sw = entries[n].sizes

\* The orders in which the entries of an orphaned directory are visited:
\* each of images.json and the size directories first once.
InnerOrders ==
  {[i \in 1..(Len(SIZES) + 1) |-> (i - 1 + first) % (Len(SIZES) + 1)] : first \in 0..Len(SIZES)}

RunOutputPool ==
  UNION { [D -> RunDirPool \cup {PlainFile}] :
            D \in {X \in SUBSET RunNames : Cardinality(X) <= MaxRunDirs} }

\* The orders in which iterdir() may yield the entries of a directory.
Orderings(S) ==
  {o \in [1..Cardinality(S) -> S] : \A a, b \in 1..Cardinality(S) : o[a] = o[b] => a = b}

\* Whether size directory k of the entry holds a file.
holds_file(entry, k) == \E id \in DOMAIN entry.files : entry.files[id][k] # 0

\* The entry with the given files of size directory k unlinked.
unlinked(entry, k, ids) ==
  [entry EXCEPT !.files = [id \in DOMAIN entry.files |->
                             IF id \in ids THEN [entry.files[id] EXCEPT ![k] = 0]
                             ELSE entry.files[id]]]

\* shutil.rmtree(item) for a directory of the output root.  inner is the
\* order in which the directory's own entries are visited: 0 for
\* images.json, k for size directory SIZES[k].  Unlinking a file needs
\* write permission on the directory that holds it and removing a
\* directory needs it on its parent; the first operation that is refused
\* raises, and what was removed before stays removed.
rmtree(item, root_writable, inner) ==
  LET RECURSIVE visit(_, _)
      visit(i, e) ==
        IF i > Len(inner)
        THEN [gone |-> root_writable, left |-> e, raised |-> ~root_writable]
        ELSE LET k == inner[i]
             IN  IF k = 0
                 THEN IF ~e.json THEN visit(i + 1, e)
                      ELSE IF e.w THEN visit(i + 1, [e EXCEPT !.json = FALSE])
                      ELSE [gone |-> FALSE, left |-> e, raised |-> TRUE]
                 ELSE IF k \notin e.sizes THEN visit(i + 1, e)
                 ELSE IF holds_file(e, k) /\ k \notin e.sw
                 THEN [gone |-> FALSE, left |-> e, raised |-> TRUE]
                 ELSE IF ~e.w
                 THEN [gone |-> FALSE, left |-> unlinked(e, k, DOMAIN e.files),
                       raised |-> TRUE]
                 ELSE visit(i + 1, [unlinked(e, k, DOMAIN e.files)
                                      EXCEPT !.sizes = @ \ {k}, !.sw = @ \ {k}])
  IN visit(1, item)

\* Variant that also removes hidden directories.
clean_orphan_galleries_with_hidden(entries, valid_galleries, root_writable, order, inner) ==
  LET doomed == {n \in DOMAIN entries : entries[n].dir /\ n \notin valid_galleries}
      RECURSIVE loop(_, _, _)
      loop(k, left, gone) ==
        IF k > Len(order) THEN [entries |-> left, removed |-> gone, raised |-> FALSE]
        ELSE IF order[k] \notin doomed THEN loop(k + 1, left, gone)
        ELSE LET r == rmtree(left[order[k]], root_writable, inner)
             IN  IF r.raised
                 THEN [entries |-> [left EXCEPT ![order[k]] = r.left], removed |-> gone,
                       raised |-> TRUE]
                 ELSE loop(k + 1, [n \in (DOMAIN left) \ {order[k]} |-> left[n]],
                           Append(gone, order[k]))
  IN loop(1, entries, <<>>)

\* clean_orphan_galleries(output_base, valid_galleries): order is the order
\* in which iterdir() yields the entries; an exception of shutil.rmtree
\* leaves the function.
clean_orphan_galleries(entries, valid_galleries, root_writable, order, inner) ==
  LET doomed == {n \in DOMAIN entries :
                   entries[n].dir /\ ~startswith_dot(n) /\ n \notin valid_galleries}
      RECURSIVE loop(_, _, _)
      loop(k, left, gone) ==
        IF k > Len(order) THEN [entries |-> left, removed |-> gone, raised |-> FALSE]
        ELSE IF order[k] \notin doomed THEN loop(k + 1, left, gone)
        ELSE LET r == rmtree(left[order[k]], root_writable, inner)
             IN  IF r.raised
                 THEN [entries |-> [left EXCEPT ![order[k]] = r.left], removed |-> gone,
                       raised |-> TRUE]
                 ELSE loop(k + 1, [n \in (DOMAIN left) \ {order[k]} |-> left[n]],
                           Append(gone, order[k]))
  IN loop(1, entries, <<>>)

\* clean_orphans(output_dir, valid_ids) on a directory of the output root:
\* the size directories in the order of SIZES; unlinking a file of a size
\* directory that cannot be written raises, and what was unlinked before
\* stays unlinked.
clean_orphans_in(entry, valid_ids) ==
  LET RECURSIVE loop(_, _)
      loop(k, e) ==
        IF k > Len(SIZES) THEN [left |-> e, raised |-> FALSE]
        ELSE LET doomed == {id \in DOMAIN e.files : e.files[id][k] # 0 /\ id \notin valid_ids}
             IN  IF k \notin e.sizes \/ doomed = {} THEN loop(k + 1, e)
                 ELSE IF k \notin e.sw THEN [left |-> e, raised |-> TRUE]
                 ELSE loop(k + 1, unlinked(e, k, doomed))
  IN loop(1, entry)

\* process_image for the image of gallery g, run to its return, on the
\* output root entries: output_path.parent.mkdir(parents=True,
\* exist_ok=True) creates the gallery's directory when the root can be
\* written and a size directory when the gallery's directory can be, and
\* resized.save needs write permission on the size directory and its file.
\* Both are inside the try block: a refusal is an error outcome, after the
\* saves of the sizes before it.
process_gallery_image(entries, g, forced, root_writable) ==
  LET present == g \in DOMAIN entries
      e == IF present THEN entries[g] ELSE NewDirectory
      refused(k) == IF ~present THEN ~root_writable
                    ELSE IF ~e.dir THEN TRUE
                    ELSE IF k \in e.sizes THEN k \notin e.sw
                    ELSE ~e.w
      RECURSIVE run_from(_, _)
      run_from(at, outs) ==
        LET r == process_image(at, RunSourceTime, RunImage, outs, forced, FALSE,
                               at \in SizeNames /\ refused(SizeIndex(at)), RunClock)
        IN  IF r.status = "running" THEN run_from(r.stage, r.outs) ELSE r
      before == IF RunImage \in DOMAIN e.files THEN e.files[RunImage] ELSE NoOutputs
      r == run_from("check", before)
      saved == {k \in AllSizes : r.outs[k] # before[k]}
  IN [status |-> r.status,
      entries |-> IF saved = {} THEN entries
                  ELSE Put(entries, g, [e EXCEPT !.sizes = @ \cup saved,
                                                 !.sw = @ \cup (saved \ e.sizes),
                                                 !.files = Put(@, RunImage, r.outs)])]

\* The Processing Flow: the step that follows a completed step, for n
\* discovered galleries.
next_step(phase, index, n) ==
  CASE phase = "discovering" -> [phase |-> "syncing", index |-> 0]
    [] phase = "syncing" -> IF n = 0 THEN [phase |-> "reconciling", index |-> 0]
                            ELSE [phase |-> "images", index |-> 1]
    [] phase = "images" -> [phase |-> "orphans", index |-> index]
    [] phase = "orphans" -> [phase |-> "manifest", index |-> index]
    [] phase = "manifest" -> IF index < n THEN [phase |-> "images", index |-> index + 1]
                             ELSE [phase |-> "reconciling", index |-> index]
    [] phase = "reconciling" -> [phase |-> "summary", index |-> index]
    [] OTHER -> [phase |-> "done", index |-> index]

RunEvent(ev, g) == [ev |-> ev, gallery |-> g]

RunInit ==
  /\ rSourceReadable \in BOOLEAN
  /\ rConfigWritable \in BOOLEAN
  /\ rOutputWritable \in BOOLEAN
  /\ (rSourceReadable /\ rConfigWritable) \/ (rSourceReadable /\ rOutputWritable)
       \/ (rConfigWritable /\ rOutputWritable)
  /\ rSource \in RunEntriesPool
  /\ rOutput \in RunOutputPool
  /\ (~rSourceReadable \/ ~rConfigWritable) => all_writable(rOutput)
  /\ rOutputBefore = rOutput
  /\ rForce \in BOOLEAN
  /\ rGalleries = <<>>
  /\ rPhase = "discovering"
  /\ rIndex = 0
  /\ rLog = <<>>
  /\ rRemoved = <<>>
  /\ rTally = [processed |-> 0, skipped |-> 0, errors |-> 0]
  /\ rTouched = FALSE
  /\ GateIdle
  /\ ConfigIdle
  /\ ExtraIdle
  /\ BuildIdle
  /\ OrphansIdle
  /\ ViewerIdle
  /\ ResizeIdle

RunAdvance(phase, n) ==
  LET nxt == next_step(phase, rIndex, n)
  IN /\ rPhase' = nxt.phase
     /\ rIndex' = nxt.index

\* Step 2: discover_galleries; iterdir() raises when the source root cannot
\* be read.
RunDiscover ==
  /\ rPhase = "discovering"
  /\ IF rSourceReadable
     THEN /\ rGalleries' = discover_galleries(rSource)
          /\ rLog' = Append(rLog, RunEvent("discover", <<>>))
          /\ RunAdvance("discovering", Len(discover_galleries(rSource)))
     ELSE /\ rPhase' = "fatal"
          /\ UNCHANGED <<rGalleries, rLog, rIndex>>
  /\ UNCHANGED <<rSourceReadable, rConfigWritable, rOutputWritable, rSource, rOutputBefore,
                 rOutput, rForce, rRemoved, rTally, rTouched>>
  /\ UNCHANGED <<gateVars, configVars, buildVars, orphanVars, viewerVars, resizeVars>>
  /\ UNCHANGED extraVars

\* Step 3: update_config_galleries; writing site.json back raises when the
\* document cannot be written.
RunSync ==
  /\ rPhase = "syncing"
  /\ IF rConfigWritable
     THEN /\ rLog' = Append(rLog, RunEvent("sync", <<>>))
          /\ RunAdvance("syncing", Len(rGalleries))
     ELSE /\ rPhase' = "fatal"
          /\ UNCHANGED <<rLog, rIndex>>
  /\ UNCHANGED <<rSourceReadable, rConfigWritable, rOutputWritable, rSource, rOutputBefore,
                 rOutput, rForce, rGalleries, rRemoved, rTally, rTouched>>
  /\ UNCHANGED <<gateVars, configVars, buildVars, orphanVars, viewerVars, resizeVars>>
  /\ UNCHANGED extraVars

\* Steps 4a-4d for the gallery at hand: the batch of its one image, tallied
\* as the collection loop does.
RunProcessImages ==
  /\ rPhase = "images"
  /\ LET g == rGalleries[rIndex]
         r == process_gallery_image(rOutput, g, rForce, rOutputWritable)
     IN /\ rOutput' = r.entries
        /\ rTouched' = (rTouched \/ r.entries # rOutput)
        /\ rTally' = IF r.status = "processed" THEN [rTally EXCEPT !.processed = @ + 1]
                     ELSE IF r.status = "skipped" THEN [rTally EXCEPT !.skipped = @ + 1]
                     ELSE [rTally EXCEPT !.errors = @ + 1]
        /\ rLog' = Append(rLog, RunEvent("images", g))
  /\ RunAdvance("images", Len(rGalleries))
  /\ UNCHANGED <<rSourceReadable, rConfigWritable, rOutputWritable, rSource, rOutputBefore,
                 rForce, rGalleries, rRemoved>>
  /\ UNCHANGED <<gateVars, configVars, buildVars, orphanVars, viewerVars, resizeVars>>
  /\ UNCHANGED extraVars

\* Step 4e for the gallery at hand: clean_orphans with the ids of the
\* gallery's source images; an exception of unlink ends the run.
RunCleanOrphans ==
  /\ rPhase = "orphans"
  /\ LET g == rGalleries[rIndex]
     IN IF g \in DOMAIN rOutput /\ rOutput[g].dir
        THEN LET r == clean_orphans_in(rOutput[g], {RunImage})
             IN  /\ rOutput' = [rOutput EXCEPT ![g] = r.left]
                 /\ rTouched' = (rTouched \/ r.left # rOutput[g])
                 /\ IF r.raised
                    THEN /\ rPhase' = "fatal"
                         /\ UNCHANGED <<rLog, rIndex>>
                    ELSE /\ rLog' = Append(rLog, RunEvent("orphans", g))
                         /\ RunAdvance("orphans", Len(rGalleries))
        ELSE /\ rLog' = Append(rLog, RunEvent("orphans", g))
             /\ RunAdvance("orphans", Len(rGalleries))
             /\ UNCHANGED <<rOutput, rTouched>>
  /\ UNCHANGED <<rSourceReadable, rConfigWritable, rOutputWritable, rSource, rOutputBefore,
                 rForce, rGalleries, rRemoved, rTally>>
  /\ UNCHANGED <<gateVars, configVars, buildVars, orphanVars, viewerVars, resizeVars>>
  /\ UNCHANGED extraVars

\* Step 4f for the gallery at hand: images.json is written; opening it for
\* writing raises when the gallery's directory is missing, is a file or
\* cannot be written.
RunWriteManifest ==
  /\ rPhase = "manifest"
  /\ LET g == rGalleries[rIndex]
     IN IF g \in DOMAIN rOutput /\ rOutput[g].dir /\ rOutput[g].w
        THEN /\ rOutput' = [rOutput EXCEPT ![g].json = TRUE]
             /\ rTouched' = TRUE
             /\ rLog' = Append(rLog, RunEvent("manifest", g))
             /\ RunAdvance("manifest", Len(rGalleries))
        ELSE /\ rPhase' = "fatal"
             /\ UNCHANGED <<rOutput, rTouched, rLog, rIndex>>
  /\ UNCHANGED <<rSourceReadable, rConfigWritable, rOutputWritable, rSource, rOutputBefore,
                 rForce, rGalleries, rRemoved, rTally>>
  /\ UNCHANGED <<gateVars, configVars, buildVars, orphanVars, viewerVars, resizeVars>>
  /\ UNCHANGED extraVars

\* Step 5: clean_orphan_galleries with the discovered galleries as the valid
\* ones; an exception of shutil.rmtree ends the run, after what it removed.
RunCleanGalleries ==
  /\ rPhase = "reconciling"
  /\ \E order \in Orderings(DOMAIN rOutput), inner \in InnerOrders :
       LET cleaned == clean_orphan_galleries(rOutput, Range(rGalleries), rOutputWritable,
                                             order, inner)
       IN /\ rOutput' = cleaned.entries
          /\ rTouched' = (rTouched \/ cleaned.entries # rOutput)
          /\ IF cleaned.raised
             THEN /\ rPhase' = "fatal"
                  /\ UNCHANGED <<rRemoved, rLog, rIndex>>
             ELSE /\ rRemoved' = cleaned.removed
                  /\ rLog' = Append(rLog, RunEvent("galleries", <<>>))
                  /\ RunAdvance("reconciling", Len(rGalleries))
  /\ UNCHANGED <<rSourceReadable, rConfigWritable, rOutputWritable, rSource, rOutputBefore,
                 rForce, rGalleries, rTally>>
  /\ UNCHANGED <<gateVars, configVars, buildVars, orphanVars, viewerVars, resizeVars>>
  /\ UNCHANGED extraVars

\* Step 6: the summary is printed and the run ends.
RunSummary ==
  /\ rPhase = "summary"
  /\ rLog' = Append(rLog, RunEvent("summary", <<>>))
  /\ RunAdvance("summary", Len(rGalleries))
  /\ UNCHANGED <<rSourceReadable, rConfigWritable, rOutputWritable, rSource, rOutputBefore,
                 rOutput, rForce, rGalleries, rRemoved, rTally, rTouched>>
  /\ UNCHANGED <<gateVars, configVars, buildVars, orphanVars, viewerVars, resizeVars>>
  /\ UNCHANGED extraVars

RunNext ==
  \/ RunDiscover
  \/ RunSync
  \/ RunProcessImages
  \/ RunCleanOrphans
  \/ RunWriteManifest
  \/ RunCleanGalleries
  \/ RunSummary

SpecRun == RunInit /\ [][RunNext]_vars

\* The steps the claimed flow logs for the discovered galleries, with the
\* given order of the three steps of a gallery.
FlowLog(galleries, inner) ==
  LET RECURSIVE blocks(_)
      blocks(i) == IF i > Len(galleries) THEN <<>>
                   ELSE [k \in 1..Len(inner) |-> RunEvent(inner[k], galleries[i])]
                        \o blocks(i + 1)
  IN <<RunEvent("discover", <<>>), RunEvent("sync", <<>>)>> \o blocks(1)
     \o <<RunEvent("galleries", <<>>), RunEvent("summary", <<>>)>>

IsPrefix(a, b) == Len(a) <= Len(b) /\ \A k \in 1..Len(a) : a[k] = b[k]

\* C11 (as claimed): when the source root cannot be read, site.json cannot be
\* written or the output root cannot be written, nothing under the output
\* root is created, changed or deleted and no gallery is processed.
C11_FatalBeforeOutput ==
  (~rSourceReadable \/ ~rConfigWritable \/ ~rOutputWritable) =>
    /\ ~rTouched
    /\ \A k \in 1..Len(rLog) : rLog[k].ev \in {"discover", "sync"}
    /\ rTally = [processed |-> 0, skipped |-> 0, errors |-> 0]

\* C12 (as claimed): the steps of a run are discovery, the config sync, then
\* for each gallery in discovery order its images, its manifest and its
\* orphan clean-up, then the clean-up of orphaned gallery directories and the
\* summary.
C12_PhaseOrder ==
  IsPrefix(rLog, FlowLog(rGalleries, <<"images", "manifest", "orphans">>))

\* The non-hidden directories the output root held before the run that are
\* not discovered galleries.
OrphanDirsBefore ==
  {n \in DOMAIN rOutputBefore :
     rOutputBefore[n].dir /\ n[1] # "." /\ n \notin Range(rGalleries)}

\* C13: at the end of a run no orphaned gallery directory is left, the
\* returned list names exactly the orphaned directories, and at no time is
\* the directory of a discovered gallery (or any other entry) missing.
C13_OrphanGalleriesRemoved ==
  /\ rPhase \in {"summary", "done"} =>
       /\ \A n \in OrphanDirsBefore : n \notin DOMAIN rOutput
       /\ Range(rRemoved) = OrphanDirsBefore
       /\ Len(rRemoved) = Cardinality(OrphanDirsBefore)
  /\ rPhase \notin {"discovering", "off"} =>
       \A n \in (DOMAIN rOutputBefore) \ OrphanDirsBefore :
         n \in DOMAIN rOutput /\ rOutput[n].dir = rOutputBefore[n].dir

\* A finished run removed an orphaned directory and kept the directory of a
\* discovered gallery, a hidden directory or a file.
C13_Witness ==
  /\ rPhase = "done"
  /\ OrphanDirsBefore # {}
  /\ Range(rRemoved) = OrphanDirsBefore
  /\ \E n \in DOMAIN rOutputBefore : n \in DOMAIN rOutput

\* C18 (as claimed): a run whose roots and site.json are usable is not ended
\* by the failure to delete an orphaned directory.
C18_DeletionFailureTolerated ==
  (/\ rSourceReadable /\ rConfigWritable /\ rOutputWritable
   /\ \A g \in Range(discover_galleries(rSource)) :
        g \in DOMAIN rOutputBefore => rOutputBefore[g].dir /\ rOutputBefore[g].w)
    => rPhase # "fatal"

(***************************************************************************)
(* SpecResize: one call of resize_image(img, target_size) on an image of   *)
(* some pixel size, for the target of one size class.  The new shorter     *)
(* edge is int(short * (target_size / long)): Python divides first, in     *)
(* IEEE 754 binary64 with round-to-nearest, multiplies the rounded         *)
(* quotient and truncates.  The operators below compute that result with   *)
(* integers.                                                               *)
(***************************************************************************)
\* Edge lengths run from 100 to 100 * MaxEdge pixels, with some edges that
\* do not divide the targets.
MaxEdge == 20

OddEdges == {97, 194, 385}

Dims == {100 * k : k \in 1..MaxEdge} \cup OddEdges

\* SIZES[name], the longest edge of a size class.
SizeTarget(name) ==
  CASE name = "thumb" -> 400
    [] name = "medium" -> 800
    [] name = "full" -> 1600

pow2(k) == IF k <= 0 THEN 1 ELSE 2 ^ k

\* The binary exponent of n / d: the largest a with 2^a * d <= n.
floor_log2(n, d) ==
  LET RECURSIVE up(_)
      up(a) == IF pow2(a + 1) * d <= n THEN up(a + 1) ELSE a
      RECURSIVE down(_)
      down(a) == IF pow2(-a) * n < d THEN down(a - 1) ELSE a
  IN IF n >= d THEN up(0) ELSE down(0)

\* 2^k modulo w.
pow2mod(k, w) ==
  LET RECURSIVE loop(_, _)
      loop(i, r) == IF i = 0 THEN r ELSE loop(i - 1, (2 * r) % w)
  IN loop(k, 1 % w)

\* int(edge * (target_size / longest)) in binary64.  The exact product
\* edge * target_size / longest and the computed one differ by less than
\* 1 / longest unless the exact one is a whole number N; then the computed
\* product is N, or the double below N when the quotient was rounded down
\* (its 53-bit significand drops the remainder rem / longest of a unit in
\* the last place) by more than half the gap between N and that double.
scaled_edge(edge, target_size, longest) ==
  LET num == edge * target_size
      N == num \div longest
      a == floor_log2(target_size, longest)
      rem == ((target_size % longest) * pow2mod(52 - a, longest)) % longest
      E == floor_log2(N, 1)
      s == a - E + (IF pow2(E) = N THEN 2 ELSE 1)
  IN IF num % longest # 0 THEN N
     ELSE IF rem = 0 \/ 2 * rem > longest THEN N
     ELSE IF edge * rem * pow2(s) > longest * pow2(-s) THEN N - 1
     ELSE N

\* Variant that returns an image at or below the target unchanged.
resize_image_never_upscales(width, height, target_size) ==
  IF width >= height
  THEN IF width <= target_size
       THEN <<width, height>>
       ELSE <<target_size, scaled_edge(height, target_size, width)>>
  ELSE IF height <= target_size
       THEN <<width, height>>
       ELSE <<scaled_edge(width, target_size, height), target_size>>

\* resize_image(img, target_size): the size of the returned image.
resize_image(width, height, target_size) ==
  IF width >= height
  THEN IF width = target_size
       THEN <<width, height>>
       ELSE <<target_size, scaled_edge(height, target_size, width)>>
  ELSE IF height = target_size
       THEN <<width, height>>
       ELSE <<scaled_edge(width, target_size, height), target_size>>

ResizeInit ==
  /\ zSize \in Dims \X Dims
  /\ zTarget \in {SizeTarget(n) : n \in SizeNames}
  /\ zResult = <<0, 0>>
  /\ zState = "opened"
  /\ GateIdle
  /\ ConfigIdle
  /\ ExtraIdle
  /\ BuildIdle
  /\ OrphansIdle
  /\ ViewerIdle
  /\ RunIdle

\* resized = resize_image(img, target_size) in the save loop of process_image.
ResizeImage ==
  /\ zState = "opened"
  /\ zResult' = resize_image(zSize[1], zSize[2], zTarget)
  /\ zState' = "resized"
  /\ UNCHANGED <<zSize, zTarget>>
  /\ UNCHANGED <<gateVars, configVars, buildVars, orphanVars, viewerVars, runVars>>
  /\ UNCHANGED extraVars

ResizeNext == ResizeImage

SpecResize == ResizeInit /\ [][ResizeNext]_vars

Longest(size) == IF size[1] >= size[2] THEN size[1] ELSE size[2]

Shortest(size) == IF size[1] >= size[2] THEN size[2] ELSE size[1]

\* The shorter edge keeps the proportion of the original: it is at most the
\* exact proportion and at least one pixel below it.
Proportional(size, res) ==
  /\ (size[1] >= size[2]) = (res[1] >= res[2])
  /\ Shortest(res) * Longest(size) <= Shortest(size) * Longest(res)
  /\ Shortest(size) * Longest(res) <= (Shortest(res) + 1) * Longest(size)

\* C15 (as claimed): the output's longest edge never exceeds the target T; an
\* image whose longest edge is at or below T is written at its native size,
\* not upscaled; a larger image is downscaled to longest edge T with the
\* shorter edge in proportion.
C15_NeverUpscaled ==
  zState = "resized" =>
    /\ Longest(zResult) <= zTarget
    /\ Longest(zSize) <= zTarget => zResult = zSize
    /\ Longest(zSize) > zTarget =>
         Longest(zResult) = zTarget /\ Proportional(zSize, zResult)

\* C15 (amended): the output's longest edge always equals the target T, so it
\* never exceeds it: an image already at T is returned at its native size, a
\* larger one is downscaled and a smaller one is upscaled to longest edge T,
\* the shorter edge a whole number of pixels at most one pixel below the
\* exact proportion.
C15_LongestEdgeIsTarget ==
  zState = "resized" =>
    /\ Longest(zResult) = zTarget
    /\ Shortest(zResult) <= zTarget
    /\ Proportional(zSize, zResult)
    /\ Longest(zSize) = zTarget => zResult = zSize

\* A 300 x 200 image resized for the 400 pixel class came out 400 x 266.
C15_Witness ==
  /\ zState = "resized"
  /\ zSize = <<300, 200>>
  /\ zTarget = 400
  /\ zResult = <<400, 266>>

(***************************************************************************)
(* SpecStore: the gallery store of the viewer (gallery.js) over one page   *)
(* session.  Gallery ids and URL hashes are sequences of characters.  A    *)
(* switchGallery call waits for loadManifest; a call whose manifest is     *)
(* cached goes on in the same turn of the event loop, a call that fetches  *)
(* goes on when its response arrives, in any order among the calls in      *)
(* flight.                                                                 *)
(***************************************************************************)
\* Most switchGallery calls of a session (the first is initGallery's).
MaxCalls == 3
\* Most versions of a manifest the server publishes during a session.
MaxVersion == 2

StoreIds == {<<"b", "w">>, <<"c", "o">>}

\* The names every plain object inherits from Object.prototype: constructor,
\* hasOwnProperty, isPrototypeOf, propertyIsEnumerable, toLocaleString,
\* toString, valueOf, __proto__ and the four legacy accessors.
ObjectPrototypeKeys ==
  {<<"c", "o", "n", "s", "t", "r", "u", "c", "t", "o", "r">>,
   <<"h", "a", "s", "O", "w", "n", "P", "r", "o", "p", "e", "r", "t", "y">>,
   <<"i", "s", "P", "r", "o", "t", "o", "t", "y", "p", "e", "O", "f">>,
   <<"p", "r", "o", "p", "e", "r", "t", "y", "I", "s", "E", "n", "u", "m", "e", "r", "a", "b", "l", "e">>,
   <<"t", "o", "L", "o", "c", "a", "l", "e", "S", "t", "r", "i", "n", "g">>,
   <<"t", "o", "S", "t", "r", "i", "n", "g">>,
   <<"v", "a", "l", "u", "e", "O", "f">>,
   <<"_", "_", "p", "r", "o", "t", "o", "_", "_">>,
   <<"_", "_", "d", "e", "f", "i", "n", "e", "G", "e", "t", "t", "e", "r", "_", "_">>,
   <<"_", "_", "d", "e", "f", "i", "n", "e", "S", "e", "t", "t", "e", "r", "_", "_">>,
   <<"_", "_", "l", "o", "o", "k", "u", "p", "G", "e", "t", "t", "e", "r", "_", "_">>,
   <<"_", "_", "l", "o", "o", "k", "u", "p", "S", "e", "t", "t", "e", "r", "_", "_">>}

\* The inherited names that occur in the hashes tried.
InheritedPool == {<<"v", "a", "l", "u", "e", "O", "f">>, <<"c", "o", "n", "s", "t", "r", "u", "c", "t", "o", "r">>}

HashPrefix == <<"#", "g", "a", "l", "l", "e", "r", "y", "=">>

\* `#gallery=${galleryId}`
gallery_hash(galleryId) == HashPrefix \o galleryId

\* Values of window.location.hash when the page loads or the user edits the
\* address: none, a gallery link, a link followed by another parameter, a
\* link to an inherited name, another fragment, a link without an id.
HashPool ==
  {<<>>, <<"#", "a", "b", "o", "u", "t">>, HashPrefix}
    \cup {gallery_hash(id) : id \in StoreIds \cup InheritedPool}
    \cup {gallery_hash(id) \o <<"&", "x">> : id \in StoreIds}

\* getGalleryFromHash: hash.match(/gallery=([^&]+)/), the first group of the
\* leftmost match, "null" when there is none.
getGalleryFromHash(hash) ==
  LET key == SubSeq(HashPrefix, 2, Len(HashPrefix))
      starts == {p \in 1..Len(hash) :
                   /\ p + Len(key) <= Len(hash)
                   /\ SubSeq(hash, p, p + Len(key) - 1) = key
                   /\ hash[p + Len(key)] # "&"}
  IN IF starts = {} THEN "null"
     ELSE LET p == CHOOSE q \in starts : \A o \in starts : q <= o
              from == p + Len(key)
              stops == {e \in from..Len(hash) : hash[e] = "&"}
              to == IF stops = {} THEN Len(hash)
                    ELSE (CHOOSE e \in stops : \A o \in stops : e <= o) - 1
          IN SubSeq(hash, from, to)

\* $config.galleries.items[key] taken as a condition: an own entry is an
\* object, and a name inherited from Object.prototype is a function (or,
\* for __proto__, an object).
items_truthy(items, key) == key \in items \/ key \in ObjectPrototypeKeys

\* initGallery: the id passed to switchGallery.
init_gallery(hash, items, default) ==
  LET hashGallery == getGalleryFromHash(hash)
  IN IF hashGallery # "null" /\ items_truthy(items, hashGallery)
     THEN hashGallery
     ELSE default

\* The manifest the server delivers for a gallery at some version.
ServerManifest(id, version) == [gallery |-> id, version |-> version]

\* $cache[galleryId]: the cached manifest, or what the cache object inherits
\* under that name, which is no manifest (version 0 here).
cache_get(cache, galleryId) ==
  IF galleryId \in DOMAIN cache THEN cache[galleryId]
  ELSE [gallery |-> galleryId, version |-> 0]

\* Variant of the cache test of loadManifest that never finds an entry.
cache_hit_never(cache, galleryId) == FALSE

\* if ($cache[galleryId]) return $cache[galleryId];  The test is one of
\* truthiness: it succeeds for a cached manifest and for every inherited name.
cache_hit(cache, galleryId) ==
  galleryId \in DOMAIN cache \/ galleryId \in ObjectPrototypeKeys

StoreInit ==
  /\ sItems \in SUBSET StoreIds
  /\ sItems # {}
  /\ sDefault \in StoreIds
  /\ sHash \in HashPool
  /\ sServer \in [StoreIds -> 0..1]
  /\ sCache = EmptyObject
  /\ sCurrent = "null"
  /\ sCalls = <<>>
  /\ sFetches = [id \in StoreIds \cup ObjectPrototypeKeys |-> 0]
  /\ sPhase = "ready"
  /\ ExceptStoreIdle

\* switchGallery(galleryId) is called while the address shows hash:
\* loadManifest returns what the cache test found, and the call sets the
\* current id and the hash, or it starts a fetch and waits.
StartSwitch(galleryId, hash) ==
  IF cache_hit(sCache, galleryId)
  THEN /\ sCalls' = Append(sCalls, [id |-> galleryId, state |-> "done", at |-> hash,
                                    got |-> <<cache_get(sCache, galleryId)>>])
       /\ sCurrent' = galleryId
       /\ sHash' = gallery_hash(galleryId)
       /\ UNCHANGED sFetches
  ELSE /\ sCalls' = Append(sCalls, [id |-> galleryId, state |-> "fetching", at |-> hash,
                                    got |-> <<>>])
       /\ sFetches' = [sFetches EXCEPT ![galleryId] = @ + 1]
       /\ sHash' = hash
       /\ UNCHANGED sCurrent

\* onMount: the configuration is loaded and initGallery is called.
PageLoad ==
  /\ sPhase = "ready"
  /\ sPhase' = "loaded"
  /\ StartSwitch(init_gallery(sHash, sItems, sDefault), sHash)
  /\ UNCHANGED <<sItems, sDefault, sServer, sCache>>
  /\ UNCHANGED exceptStore

\* The page (header, selector, gallery) is shown once initGallery has
\* returned; while it waits App shows the loading screen and after it has
\* thrown the error screen.
PageShown == sPhase = "loaded" /\ sCalls[1].state = "done"

\* handleGallerySelect: a gallery of the selector is chosen.
HandleGallerySelect(galleryId) ==
  /\ PageShown
  /\ Len(sCalls) < MaxCalls
  /\ galleryId \in sItems
  /\ StartSwitch(galleryId, sHash)
  /\ UNCHANGED <<sItems, sDefault, sServer, sCache, sPhase>>
  /\ UNCHANGED exceptStore

\* The user changes the hash in the address bar, at any time after the
\* configuration has been loaded (the listener is registered at mount):
\* handleHashChange calls switchGallery when the hash names something
\* truthy in the items.
HandleHashChange(hash) ==
  /\ sPhase = "loaded"
  /\ Len(sCalls) < MaxCalls
  /\ hash # sHash
  /\ LET hashGallery == getGalleryFromHash(hash)
     IN IF hashGallery # "null" /\ items_truthy(sItems, hashGallery)
        THEN StartSwitch(hashGallery, hash)
        ELSE /\ sHash' = hash
             /\ UNCHANGED <<sCalls, sFetches, sCurrent>>
  /\ UNCHANGED <<sItems, sDefault, sServer, sCache, sPhase>>
  /\ UNCHANGED exceptStore

\* The response of the fetch of call k arrives (await fetch returns): an ok
\* response carries the manifest the server had at that moment and the call
\* goes on to read it; any other response, or none, makes loadManifest throw.
FetchResponds(k, ok) ==
  /\ k \in 1..Len(sCalls)
  /\ sCalls[k].state = "fetching"
  /\ LET galleryId == sCalls[k].id
     IN /\ ok => galleryId \in StoreIds /\ sServer[galleryId] > 0
        /\ IF ok
           THEN sCalls' = [sCalls EXCEPT
                             ![k].state = "parsing",
                             ![k].got = <<ServerManifest(galleryId, sServer[galleryId])>>]
           ELSE sCalls' = [sCalls EXCEPT ![k].state = "failed"]
  /\ UNCHANGED <<sItems, sDefault, sHash, sServer, sCache, sCurrent, sFetches, sPhase>>
  /\ UNCHANGED exceptStore

\* The body of the response of call k has been parsed (await response.json()
\* returns), in any order with the other calls: the manifest is cached,
\* loadManifest returns and switchGallery sets the current id and the hash.
JsonSettles(k) ==
  /\ k \in 1..Len(sCalls)
  /\ sCalls[k].state = "parsing"
  /\ LET galleryId == sCalls[k].id
     IN /\ sCache' = Put(sCache, galleryId, sCalls[k].got[1])
        /\ sCalls' = [sCalls EXCEPT ![k].state = "done"]
        /\ sCurrent' = galleryId
        /\ sHash' = gallery_hash(galleryId)
  /\ UNCHANGED <<sItems, sDefault, sServer, sFetches, sPhase>>
  /\ UNCHANGED exceptStore

\* The builder publishes a gallery's manifest again.
Publish(galleryId) ==
  /\ sPhase = "loaded"
  /\ sServer[galleryId] < MaxVersion
  /\ sServer' = [sServer EXCEPT ![galleryId] = @ + 1]
  /\ UNCHANGED <<sItems, sDefault, sHash, sCache, sCurrent, sCalls, sFetches, sPhase>>
  /\ UNCHANGED exceptStore

StoreNext ==
  \/ PageLoad
  \/ \E galleryId \in StoreIds : HandleGallerySelect(galleryId)
  \/ \E hash \in HashPool : HandleHashChange(hash)
  \/ \E k \in 1..MaxCalls, ok \in BOOLEAN : FetchResponds(k, ok)
  \/ \E k \in 1..MaxCalls : JsonSettles(k)
  \/ \E galleryId \in StoreIds : Publish(galleryId)

SpecStore == StoreInit /\ [][StoreNext]_vars

(***************************************************************************)
(* Claims about the gallery store.                                         *)
(***************************************************************************)
\* The hash is a link to gallery id: #gallery=<id>, alone or followed by a
\* further parameter.
HashNames(hash, id) ==
  LET link == gallery_hash(id)
  IN \/ hash = link
     \/ /\ Len(hash) > Len(link)
        /\ SubSeq(hash, 1, Len(link)) = link
        /\ hash[Len(link) + 1] = "&"

\* C21 (as claimed): on page load the gallery requested first is the one the
\* hash names when that is a key of config.galleries.items, and
\* config.galleries.default otherwise.
C21_InitialGallery ==
  sPhase = "loaded" =>
    sCalls[1].id = IF \E id \in sItems : HashNames(sCalls[1].at, id)
                   THEN CHOOSE id \in sItems : HashNames(sCalls[1].at, id)
                   ELSE sDefault

C27_LastRequestWins ==
  (/\ Len(sCalls) >= 1
   /\ \A k \in 1..Len(sCalls) : sCalls[k].state = "done" /\ sCalls[k].id \in sItems) =>
    LET last == sCalls[Len(sCalls)].id
    IN /\ sCurrent = last
       /\ \A id \in sItems : HashNames(sHash, id) => id = last
       /\ sCurrent \in DOMAIN sCache
       /\ sCache[sCurrent].gallery = last

(***************************************************************************)
(* SpecStems: one batch of process_gallery over the files of a gallery's   *)
(* source directory, each file a pair of its name without the extension    *)
(* and its extension.  The gallery is new: no output exists when the batch *)
(* starts.  Times are counted from the start of the batch: every source    *)
(* file has time 1 and an output saved by the batch has time 1 as well, so *)
(* it is not older than any source.                                        *)
(***************************************************************************)
\* Most files in the source directory.
MaxFiles == 3
\* Most worker threads of the pool.
MaxWorkers == 2

SUPPORTED_EXTENSIONS == {".jpg", ".jpeg", ".png", ".webp", ".tiff", ".bmp"}

SourceFilePool == <<<<"a", ".jpg">>, <<"a", ".png">>, <<"b", ".jpg">>, <<"b", ".txt">>,
                    <<"c", ".webp">>>>

SourceFiles == {SourceFilePool[k] : k \in 1..(MaxFiles + 1)}

\* path.stem
stem(path) == path[1]

\* path.suffix.lower()
suffix(path) == path[2]

\* The source images of a gallery: its files with a supported extension, in
\* the order of their names.
find_source_images(files) ==
  LET RECURSIVE from(_)
      from(k) == IF k > Len(SourceFilePool) THEN <<>>
                 ELSE IF SourceFilePool[k] \in files
                         /\ suffix(SourceFilePool[k]) \in SUPPORTED_EXTENSIONS
                 THEN <<SourceFilePool[k]>> \o from(k + 1)
                 ELSE from(k + 1)
  IN from(1)

\* output_paths of process_image: output_dir / size / f"{base_name}.webp",
\* in the order of SIZES.
output_path(size, base_name) == <<size, base_name, ".webp">>

output_paths(base_name) == {output_path(size, base_name) : size \in SizeNames}

\* The time of an output path on disk, 0 when it does not exist.
out_mtime(disk, path) == IF path \in DOMAIN disk THEN disk[path] ELSE 0

StemsInit ==
  /\ jFiles \in {F \in SUBSET SourceFiles : Cardinality(F) <= MaxFiles}
  /\ jForce \in BOOLEAN
  /\ jWorkers \in 1..MaxWorkers
  /\ jJobs = <<>>
  /\ jOut = [path \in {} |-> 0]
  /\ jWrites = [path \in {} |-> {}]
  /\ jRecords = <<>>
  /\ jState = "ready"
  /\ ExceptStemIdle

\* executor.submit(process_image, path, path.stem, output_dir, force) for
\* each path of source_images.
StemsSubmit ==
  /\ jState = "ready"
  /\ LET source_paths == find_source_images(jFiles)
     IN jJobs' = [k \in 1..Len(source_paths) |->
                    [path |-> source_paths[k], base_name |-> stem(source_paths[k]),
                     status |-> "pending", saved |-> 0]]
  /\ jState' = "pool"
  /\ UNCHANGED <<jFiles, jForce, jWorkers, jOut, jWrites, jRecords>>
  /\ UNCHANGED exceptStem

\* A free worker thread takes the next job of the queue: the jobs are taken
\* in the order they were submitted, and a thread is busy from taking a job
\* until process_image returns.
StemsTake(k) ==
  /\ jState = "pool"
  /\ k \in 1..Len(jJobs)
  /\ jJobs[k].status = "pending"
  /\ \A m \in 1..(k - 1) : jJobs[m].status # "pending"
  /\ Cardinality({m \in 1..Len(jJobs) : jJobs[m].status \in {"taken", "saving"}}) < jWorkers
  /\ jJobs' = [jJobs EXCEPT ![k].status = "taken"]
  /\ UNCHANGED <<jFiles, jForce, jWorkers, jOut, jWrites, jRecords, jState>>
  /\ UNCHANGED exceptStem

\* process_image of a taken job begins, whenever its thread gets to it:
\* without force it returns "skipped" when needs_processing finds the three
\* outputs present and not older than the source; otherwise it goes on to
\* open the image and save.
StemsProcess(k) ==
  /\ jState = "pool"
  /\ k \in 1..Len(jJobs)
  /\ jJobs[k].status = "taken"
  /\ LET outs == [i \in 1..Len(SIZES) |->
                    out_mtime(jOut, output_path(SIZES[i], jJobs[k].base_name))]
     IN jJobs' = [jJobs EXCEPT ![k].status =
                    IF ~jForce /\ ~needs_processing(1, outs) THEN "skipped" ELSE "saving"]
  /\ UNCHANGED <<jFiles, jForce, jWorkers, jOut, jWrites, jRecords, jState>>
  /\ UNCHANGED exceptStem

\* resized.save(output_path, ...) of job k for the next size of SIZES, with
\* the other threads running in between; after the last size process_image
\* returns "processed" with the record of the image.
StemsSave(k) ==
  /\ jState = "pool"
  /\ k \in 1..Len(jJobs)
  /\ jJobs[k].status = "saving"
  /\ LET path == output_path(SIZES[jJobs[k].saved + 1], jJobs[k].base_name)
     IN /\ jOut' = [q \in DOMAIN jOut \cup {path} |-> IF q = path THEN 1 ELSE jOut[q]]
        /\ jWrites' = [q \in DOMAIN jWrites \cup {path} |->
                         (IF q \in DOMAIN jWrites THEN jWrites[q] ELSE {})
                           \cup (IF q = path THEN {k} ELSE {})]
  /\ jJobs' = [jJobs EXCEPT ![k].saved = @ + 1,
                            ![k].status = IF jJobs[k].saved + 1 = Len(SIZES)
                                          THEN "processed" ELSE "saving"]
  /\ UNCHANGED <<jFiles, jForce, jWorkers, jRecords, jState>>
  /\ UNCHANGED exceptStem

\* One turn of the as_completed loop: manifest_images.append(data) for a
\* processed image; a skipped one is counted and adds no record.
StemsCollect(k) ==
  /\ jState = "pool"
  /\ k \in 1..Len(jJobs)
  /\ jJobs[k].status \in {"processed", "skipped"}
  /\ jRecords' = IF jJobs[k].status = "processed"
                 THEN Append(jRecords, [id |-> jJobs[k].base_name, job |-> k])
                 ELSE jRecords
  /\ jJobs' = [jJobs EXCEPT ![k].status = IF jJobs[k].status = "processed"
                                          THEN "collected" ELSE "counted"]
  /\ UNCHANGED <<jFiles, jForce, jWorkers, jOut, jWrites, jState>>
  /\ UNCHANGED exceptStem

\* The loop ends when every job has been collected.
StemsEnd ==
  /\ jState = "pool"
  /\ \A k \in 1..Len(jJobs) : jJobs[k].status \in {"collected", "counted"}
  /\ jState' = "done"
  /\ UNCHANGED <<jFiles, jForce, jWorkers, jJobs, jOut, jWrites, jRecords>>
  /\ UNCHANGED exceptStem

StemsNext ==
  \/ StemsSubmit
  \/ \E k \in 1..MaxFiles : StemsTake(k)
  \/ \E k \in 1..MaxFiles : StemsProcess(k)
  \/ \E k \in 1..MaxFiles : StemsSave(k)
  \/ \E k \in 1..MaxFiles : StemsCollect(k)
  \/ StemsEnd

SpecStems == StemsInit /\ [][StemsNext]_vars

\* C26 (as claimed): whatever accepted files the source directory holds, no
\* two jobs of the batch write the same output path and no id is collected
\* for the manifest twice.
C26_UniqueJoinKey ==
  /\ \A path \in DOMAIN jWrites : Cardinality(jWrites[path]) <= 1
  /\ \A k, m \in 1..Len(jRecords) : jRecords[k].id = jRecords[m].id => k = m

(***************************************************************************)
(* The service worker.  A request is the path of its URL, a sequence of    *)
(* characters.  Two workers exist: the one of the plain viewer, whose      *)
(* cache names carry v4, and the one of the Svelte viewer, whose cache     *)
(* names carry v6.                                                         *)
(***************************************************************************)
\* Most requests of a session, which may all be in flight at once, and most
\* worker generations.
MaxRequests == 2
MaxGeneration == 2

\* String.prototype.includes and String.prototype.endsWith.
includes(str, sub) ==
  \E p \in 1..(Len(str) - Len(sub) + 1) : SubSeq(str, p, p + Len(sub) - 1) = sub

endsWith(str, sub) ==
  Len(sub) <= Len(str) /\ SubSeq(str, Len(str) - Len(sub) + 1, Len(str)) = sub

\* The i flag of a regular expression: letters compare without their case.
FoldUpper ==
  <<"A", "B", "C", "D", "E", "F", "G", "H", "I", "J", "K", "L", "M",
    "N", "O", "P", "Q", "R", "S", "T", "U", "V", "W", "X", "Y", "Z">>

FoldLower ==
  <<"a", "b", "c", "d", "e", "f", "g", "h", "i", "j", "k", "l", "m",
    "n", "o", "p", "q", "r", "s", "t", "u", "v", "w", "x", "y", "z">>

foldCase(ch) ==
  IF \E k \in 1..Len(FoldUpper) : FoldUpper[k] = ch
  THEN FoldLower[CHOOSE k \in 1..Len(FoldUpper) : FoldUpper[k] = ch]
  ELSE ch

\* pathname.match(/\.(webp|jpg|jpeg|png|gif)$/i)
IMAGE_EXTENSIONS ==
  {<<".", "w", "e", "b", "p">>, <<".", "j", "p", "g">>, <<".", "j", "p", "e", "g">>, <<".", "p", "n", "g">>, <<".", "g", "i", "f">>}

matchesImage(pathname) ==
  LET folded == [k \in 1..Len(pathname) |-> foldCase(pathname[k])]
  IN  \E ext \in IMAGE_EXTENSIONS : endsWith(folded, ext)

\* pathname.match(/\/assets\/.*\.(js|css)$/)
ASSET_EXTENSIONS == {<<".", "j", "s">>, <<".", "c", "s", "s">>}

matchesHashedAsset(pathname) ==
  \E p \in 1..Len(pathname), ext \in ASSET_EXTENSIONS :
    /\ p + 7 <= Len(pathname)
    /\ SubSeq(pathname, p, p + 7) = <<"/", "a", "s", "s", "e", "t", "s", "/">>
    /\ endsWith(pathname, ext)
    /\ Len(pathname) - Len(ext) + 1 >= p + 8

STATIC_ASSETS == {<<"/">>, <<"/", "i", "n", "d", "e", "x", ".", "h", "t", "m", "l">>, <<"/", "s", "t", "y", "l", "e", "s", ".", "c", "s", "s">>, <<"/", "s", "c", "r", "i", "p", "t", ".", "j", "s">>}

\* The fetch handler of the v4 worker: the first test that passes decides
\* the strategy and the cache.
route_v4(pathname) ==
  IF includes(pathname, <<"/", "a", "s", "s", "e", "t", "s", "/">>) THEN <<"cacheFirst", "images">>
  ELSE IF includes(pathname, <<"i", "m", "a", "g", "e", "s", ".", "j", "s", "o", "n">>) THEN <<"networkFirst", "static">>
  ELSE IF \E asset \in STATIC_ASSETS : endsWith(pathname, asset) \/ pathname = <<"/">>
    THEN <<"networkFirst", "static">>
  ELSE <<"fetch", "none">>

\* The fetch handler of the v6 worker.
route_v6(pathname) ==
  IF includes(pathname, <<"/", "a", "s", "s", "e", "t", "s", "/">>) /\ matchesImage(pathname)
    THEN <<"cacheFirst", "images">>
  ELSE IF includes(pathname, <<"i", "m", "a", "g", "e", "s", ".", "j", "s", "o", "n">>) THEN <<"networkFirst", "static">>
  ELSE IF includes(pathname, <<"s", "i", "t", "e", ".", "j", "s", "o", "n">>) \/ includes(pathname, <<"t", "h", "e", "m", "e", ".", "j", "s", "o", "n">>)
    THEN <<"networkFirst", "static">>
  ELSE IF matchesHashedAsset(pathname) THEN <<"cacheFirst", "static">>
  ELSE IF pathname = <<"/">> \/ endsWith(pathname, <<".", "h", "t", "m", "l">>)
    THEN <<"networkFirst", "static">>
  ELSE <<"fetch", "none">>

route(handler, pathname) ==
  IF handler = "v4" THEN route_v4(pathname) ELSE route_v6(pathname)

\* The requests the pages make: the document, the files of the plain
\* viewer, the configuration files of either viewer, two gallery images, a
\* gallery manifest, the bundles Vite emits, and an icon.
RequestPool ==
  {<<"/">>,
   <<"/", "i", "n", "d", "e", "x", ".", "h", "t", "m", "l">>,
   <<"/", "s", "t", "y", "l", "e", "s", ".", "c", "s", "s">>,
   <<"/", "s", "c", "r", "i", "p", "t", ".", "j", "s">>,
   <<"/", "c", "o", "n", "f", "i", "g", ".", "j", "s", "o", "n">>,
   <<"/", "s", "i", "t", "e", ".", "j", "s", "o", "n">>,
   <<"/", "t", "h", "e", "m", "e", ".", "j", "s", "o", "n">>,
   <<"/", "a", "s", "s", "e", "t", "s", "/", "b", "w", "/", "a", ".", "w", "e", "b", "p">>,
   <<"/", "a", "s", "s", "e", "t", "s", "/", "b", "w", "/", "b", ".", "P", "N", "G">>,
   <<"/", "a", "s", "s", "e", "t", "s", "/", "b", "w", "/", "i", "m", "a", "g", "e", "s", ".", "j", "s", "o", "n">>,
   <<"/", "a", "s", "s", "e", "t", "s", "/", "a", "p", "p", "-", "1", ".", "j", "s">>,
   <<"/", "a", "s", "s", "e", "t", "s", "/", "a", "p", "p", "-", "1", ".", "c", "s", "s">>,
   <<"/", "f", "a", "v", "i", "c", "o", "n", ".", "i", "c", "o">>}

Handlers == {"v4", "v6"}

\* STATIC_CACHE and IMAGE_CACHE: the names carry CACHE_VERSION, which stands
\* here as the number of the worker's generation.
cache_name(kind, generation) == <<kind, generation>>

\* install: the v4 worker stores STATIC_ASSETS in its static cache, the v6
\* worker stores nothing.
installed(handler, generation) ==
  IF handler = "v4"
  THEN [name \in {cache_name("static", generation)} |-> STATIC_ASSETS]
  ELSE [name \in {} |-> {}]

\* caches.match(request): a stored response of any cache.
caches_match(caches, pathname) == \E name \in DOMAIN caches : pathname \in caches[name]

\* No worker is being installed or activated.
NotActivating == [handler |-> "off", generation |-> 0, pc |-> "none", todo |-> {}]

\* The caches with the cache of that name in them, created empty by
\* caches.open when it was not there.
opened(caches, name) ==
  [n \in DOMAIN caches \cup {name} |-> IF n \in DOMAIN caches THEN caches[n] ELSE {}]

WorkerInit ==
  /\ wHandler \in Handlers
  /\ wGeneration = 1
  /\ wOnline = TRUE
  /\ wCaches = installed(wHandler, 1)
  /\ wPuts = EmptyBag
  /\ wAnswered = {}
  /\ wLast = EmptyObject
  /\ wRequests = 0
  /\ wFlight = {}
  /\ wActivating = NotActivating
  /\ ExceptWorkerIdle

\* The response a request gets, as the last answer given.
Answered(req, from, network, status) ==
  [handler |-> req.handler, pathname |-> req.pathname, strategy |-> req.strategy,
   from |-> from, network |-> network, status |-> status, before |-> req.before]

\* A fetch event: the handler picks the strategy and the cache.  cacheFirst
\* begins with await caches.match, networkFirst and a request the handler
\* leaves to the browser begin with the fetch.  The event goes to the active
\* worker: to the replaced one until the activate event of its successor,
\* and to the successor once its activation has settled (a request a page
\* makes in between has its event dispatched then).
HandleFetch(pathname) ==
  /\ wHandler \in Handlers
  /\ wActivating.pc # "deleting"
  /\ wRequests < MaxRequests
  /\ LET strategy == route(wHandler, pathname)[1]
         kind == route(wHandler, pathname)[2]
     IN wFlight' = wFlight \cup
          {[n |-> wRequests + 1, handler |-> wHandler, pathname |-> pathname,
            strategy |-> strategy, cache |-> cache_name(kind, wGeneration),
            pc |-> IF strategy = "cacheFirst" THEN "match" ELSE "fetch",
            before |-> pathname \in wAnswered]}
  /\ wRequests' = wRequests + 1
  /\ UNCHANGED <<wHandler, wGeneration, wOnline, wCaches, wPuts, wAnswered, wLast,
                 wActivating>>
  /\ UNCHANGED exceptWorker

\* cacheFirst: await caches.match(request) returns; a stored response is the
\* answer, otherwise the request goes to the network.
CacheMatched(req) ==
  /\ req \in wFlight
  /\ req.pc = "match"
  /\ IF caches_match(wCaches, req.pathname)
     THEN /\ wLast' = Answered(req, "cache", FALSE, 200)
          /\ wFlight' = wFlight \ {req}
     ELSE /\ wFlight' = (wFlight \ {req}) \cup {[req EXCEPT !.pc = "fetch"]}
          /\ UNCHANGED wLast
  /\ UNCHANGED <<wHandler, wGeneration, wOnline, wCaches, wPuts, wAnswered, wRequests,
                 wActivating>>
  /\ UNCHANGED exceptWorker

\* await fetch(request) returns or throws.  With the network reachable the
\* response arrives ("ok" is what the server says): a strategy that has an
\* ok response goes on to await caches.open, and any other response is the
\* answer.  Without the network fetch throws: cacheFirst answers 503,
\* networkFirst goes on to await caches.match, and the browser reports a
\* network error for a request left to it.
FetchReturns(req, ok) ==
  /\ req \in wFlight
  /\ req.pc = "fetch"
  /\ ~wOnline => ok
  /\ IF wOnline
     THEN /\ IF ok /\ req.strategy # "fetch"
             THEN /\ wFlight' = (wFlight \ {req}) \cup {[req EXCEPT !.pc = "open"]}
                  /\ UNCHANGED wLast
             ELSE /\ wFlight' = wFlight \ {req}
                  /\ wLast' = Answered(req, "network", TRUE, IF ok THEN 200 ELSE 404)
          /\ wAnswered' = IF ok /\ req.strategy = "fetch"
                          THEN wAnswered \cup {req.pathname} ELSE wAnswered
     ELSE /\ IF req.strategy = "networkFirst"
             THEN /\ wFlight' = (wFlight \ {req}) \cup {[req EXCEPT !.pc = "fallback"]}
                  /\ UNCHANGED wLast
             ELSE /\ wFlight' = wFlight \ {req}
                  /\ wLast' = IF req.strategy = "cacheFirst"
                              THEN Answered(req, "offline", TRUE, 503)
                              ELSE Answered(req, "error", TRUE, 0)
          /\ UNCHANGED wAnswered
  /\ UNCHANGED <<wHandler, wGeneration, wOnline, wCaches, wPuts, wRequests, wActivating>>
  /\ UNCHANGED exceptWorker

\* await caches.open(cacheName) returns or throws.  When it returns, the
\* cache exists (created if it was not there), a cache.put is started that
\* nothing waits for, and the response of the network is the answer.  When
\* it throws, the catch block runs although the network has answered:
\* cacheFirst answers 503 and networkFirst goes on to await caches.match.
OpenSettles(req, resolved) ==
  /\ req \in wFlight
  /\ req.pc = "open"
  /\ IF resolved
     THEN /\ wCaches' = opened(wCaches, req.cache)
          /\ wPuts' = wPuts (+) SetToBag({<<req.cache, req.pathname>>})
          /\ wLast' = Answered(req, "network", TRUE, 200)
          /\ wAnswered' = wAnswered \cup {req.pathname}
          /\ wFlight' = wFlight \ {req}
     ELSE /\ IF req.strategy = "networkFirst"
             THEN /\ wFlight' = (wFlight \ {req}) \cup {[req EXCEPT !.pc = "fallback"]}
                  /\ UNCHANGED wLast
             ELSE /\ wFlight' = wFlight \ {req}
                  /\ wLast' = Answered(req, "offline", TRUE, 503)
          /\ UNCHANGED <<wCaches, wPuts, wAnswered>>
  /\ UNCHANGED <<wHandler, wGeneration, wOnline, wRequests, wActivating>>
  /\ UNCHANGED exceptWorker

\* networkFirst in its catch block: await caches.match(request) returns; a
\* stored response is the answer, otherwise 503.
FallbackMatched(req) ==
  /\ req \in wFlight
  /\ req.pc = "fallback"
  /\ wLast' = IF caches_match(wCaches, req.pathname)
              THEN Answered(req, "cache", TRUE, 200)
              ELSE Answered(req, "offline", TRUE, 503)
  /\ wFlight' = wFlight \ {req}
  /\ UNCHANGED <<wHandler, wGeneration, wOnline, wCaches, wPuts, wAnswered, wRequests,
                 wActivating>>
  /\ UNCHANGED exceptWorker

\* One of the pending cache.put calls settles (several may be pending for
\* the same cache and path): the response is stored in the cache, or the put
\* is rejected and nothing is stored.
PutSettles(put, stored) ==
  /\ BagIn(put, wPuts)
  /\ wPuts' = wPuts (-) SetToBag({put})
  /\ wCaches' = IF stored
                THEN [name \in DOMAIN wCaches \cup {put[1]} |->
                        (IF name \in DOMAIN wCaches THEN wCaches[name] ELSE {})
                          \cup (IF name = put[1] THEN {put[2]} ELSE {})]
                ELSE wCaches
  /\ UNCHANGED <<wHandler, wGeneration, wOnline, wAnswered, wLast, wRequests, wFlight,
                 wActivating>>
  /\ UNCHANGED exceptWorker

\* The network comes or goes.
NetworkChanges ==
  /\ wHandler \in Handlers
  /\ wOnline' = ~wOnline
  /\ UNCHANGED <<wHandler, wGeneration, wCaches, wPuts, wAnswered, wLast, wRequests,
                 wFlight, wActivating>>
  /\ UNCHANGED exceptWorker

\* The install event of a worker with another CACHE_VERSION.  The v6 handler
\* calls skipWaiting at once and stores nothing.  The v4 handler starts
\* caches.open(STATIC_CACHE) and waits for it; the caches are as they were.
\* The replaced worker stays the active one and answers the fetch events.
\* The browser has fetched the script of the new worker from the network.
Install(handler) ==
  /\ wHandler \in Handlers
  /\ wActivating.pc = "none"
  /\ wOnline
  /\ wGeneration < MaxGeneration
  /\ wHandler = "v6" => handler = "v6"
  /\ wActivating' = [handler |-> handler, generation |-> wGeneration + 1,
                     pc |-> IF handler = "v4" THEN "open" ELSE "installed",
                     todo |-> {}]
  /\ UNCHANGED <<wHandler, wGeneration, wOnline, wCaches, wPuts, wAnswered, wLast,
                 wRequests, wFlight>>
  /\ UNCHANGED exceptWorker

\* v4 install: caches.open(STATIC_CACHE) settles.  Resolved, the static
\* cache of the new version is there, empty when it was not there before,
\* and cache.addAll(STATIC_ASSETS) is started; rejected, the install has
\* failed and skipWaiting is not called.
InstallOpenSettles(resolved) ==
  /\ wActivating.pc = "open"
  /\ IF resolved
       THEN /\ wCaches' = opened(wCaches, cache_name("static", wActivating.generation))
            /\ wActivating' = [wActivating EXCEPT !.pc = "addAll"]
       ELSE /\ wActivating' = NotActivating
            /\ UNCHANGED wCaches
  /\ UNCHANGED <<wHandler, wGeneration, wOnline, wPuts, wAnswered, wLast, wRequests,
                 wFlight>>
  /\ UNCHANGED exceptWorker

\* v4 install: cache.addAll(STATIC_ASSETS) settles.  It resolves when the
\* network has answered every asset with an ok response: the assets are
\* stored and skipWaiting is called.  It rejects when the network cannot be
\* reached or an answer is not ok: nothing is stored, the install has
\* failed, skipWaiting is not called and the cache that was opened stays.
InstallAddAllSettles(ok) ==
  /\ wActivating.pc = "addAll"
  /\ ok => wOnline
  /\ IF ok
       THEN /\ LET stored == installed(wActivating.handler, wActivating.generation)
               IN wCaches' = [name \in DOMAIN wCaches \cup DOMAIN stored |->
                                (IF name \in DOMAIN wCaches THEN wCaches[name] ELSE {})
                                  \cup (IF name \in DOMAIN stored THEN stored[name] ELSE {})]
            /\ wActivating' = [wActivating EXCEPT !.pc = "installed"]
       ELSE /\ wActivating' = NotActivating
            /\ UNCHANGED wCaches
  /\ UNCHANGED <<wHandler, wGeneration, wOnline, wPuts, wAnswered, wLast, wRequests,
                 wFlight>>
  /\ UNCHANGED exceptWorker

\* The activate event: caches.keys() returns the names of the caches there
\* are at that moment, and a caches.delete is started for each name that is
\* not one of the two names of the activating worker.
ActivateKeys ==
  /\ wActivating.pc = "installed"
  /\ wActivating' =
       [wActivating EXCEPT
          !.pc = "deleting",
          !.todo = {key \in DOMAIN wCaches :
                      /\ key # cache_name("static", wActivating.generation)
                      /\ key # cache_name("images", wActivating.generation)}]
  /\ UNCHANGED <<wHandler, wGeneration, wOnline, wCaches, wPuts, wAnswered, wLast,
                 wRequests, wFlight>>
  /\ UNCHANGED exceptWorker

\* The ok answers that still count after a cache has been deleted: those
\* whose response is stored or is being stored.
still_answered(answered, caches, puts) ==
  {pathname \in answered :
     \/ caches_match(caches, pathname)
     \/ \E put \in BagToSet(puts) : put[2] = pathname}

\* One caches.delete of the activation settles, in any order with the
\* others and with the steps of the requests in flight: the cache is gone,
\* and a put that was writing to it stores nothing that caches.match can
\* find.  A request that opens a cache of that name afterwards creates it
\* again.
DeleteCache(key) ==
  /\ wActivating.pc = "deleting"
  /\ key \in wActivating.todo
  /\ wActivating' = [wActivating EXCEPT !.todo = @ \ {key}]
  /\ wCaches' = [name \in DOMAIN wCaches \ {key} |-> wCaches[name]]
  /\ wPuts' = [put \in {q \in BagToSet(wPuts) : q[1] # key} |-> wPuts[put]]
  /\ wAnswered' = still_answered(wAnswered, wCaches', wPuts')
  /\ wFlight' = {[req EXCEPT !.before = req.before /\ req.pathname \in wAnswered'] :
                   req \in wFlight}
  /\ UNCHANGED <<wHandler, wGeneration, wOnline, wLast, wRequests>>
  /\ UNCHANGED exceptWorker

\* Every delete has settled: clients.claim(), and the worker is the active
\* one.  The requests the replaced worker has not answered yet stay with it
\* and with its cache names.
Activate ==
  /\ wActivating.pc = "deleting"
  /\ wActivating.todo = {}
  /\ wHandler' = wActivating.handler
  /\ wGeneration' = wActivating.generation
  /\ wActivating' = NotActivating
  /\ UNCHANGED <<wOnline, wCaches, wPuts, wAnswered, wLast, wRequests, wFlight>>
  /\ UNCHANGED exceptWorker

WorkerNext ==
  \/ \E pathname \in RequestPool : HandleFetch(pathname)
  \/ \E req \in wFlight : CacheMatched(req)
  \/ \E req \in wFlight, ok \in BOOLEAN : FetchReturns(req, ok)
  \/ \E req \in wFlight, resolved \in BOOLEAN : OpenSettles(req, resolved)
  \/ \E req \in wFlight : FallbackMatched(req)
  \/ \E put \in BagToSet(wPuts), stored \in BOOLEAN : PutSettles(put, stored)
  \/ NetworkChanges
  \/ \E handler \in Handlers : Install(handler)
  \/ \E resolved \in BOOLEAN : InstallOpenSettles(resolved)
  \/ \E ok \in BOOLEAN : InstallAddAllSettles(ok)
  \/ ActivateKeys
  \/ \E key \in wActivating.todo : DeleteCache(key)
  \/ Activate

SpecWorker == WorkerInit /\ [][WorkerNext]_vars

\* The kinds of request the strategy tables name.
IsGalleryImage(pathname) == includes(pathname, <<"/", "a", "s", "s", "e", "t", "s", "/">>) /\ matchesImage(pathname)

IsManifest(pathname) == endsWith(pathname, <<"/", "i", "m", "a", "g", "e", "s", ".", "j", "s", "o", "n">>)

\* The configuration files each viewer fetches: config.json by the plain
\* viewer, site.json and theme.json by the Svelte viewer.
IsConfigFile(handler, pathname) ==
  IF handler = "v4" THEN pathname = <<"/", "c", "o", "n", "f", "i", "g", ".", "j", "s", "o", "n">>
  ELSE pathname \in {<<"/", "s", "i", "t", "e", ".", "j", "s", "o", "n">>, <<"/", "t", "h", "e", "m", "e", ".", "j", "s", "o", "n">>}

IsDocument(pathname) == pathname = <<"/">> \/ endsWith(pathname, <<".", "h", "t", "m", "l">>)

\* C22: a gallery image that the network has answered with an ok response
\* since the caches were last emptied is from then on answered from the
\* cache without contacting the network, also while offline; a response
\* that is not ok is never stored; and an image that is not cached gets a
\* 503 answer when the network cannot be reached.
C22_ImageServedFromCache ==
  /\ (wLast # EmptyObject /\ IsGalleryImage(wLast.pathname) /\ wLast.before)
       => (wLast.from = "cache" /\ ~wLast.network)
  /\ \A name \in DOMAIN wCaches :
       \A pathname \in wCaches[name] : pathname \in wAnswered \cup STATIC_ASSETS
  /\ (wLast # EmptyObject /\ IsGalleryImage(wLast.pathname) /\ wLast.from = "offline")
       => wLast.status = 503

\* C23: every request is served by one of the three strategies; manifests
\* and configuration files are served network-first; only gallery images
\* and hashed JS/CSS files are served cache-first; and a request that is
\* none of these, nor the HTML document the strategy tables list as
\* network-first, goes to the network only.
C23_OneStrategyPerKind ==
  wLast # EmptyObject =>
    LET pathname == wLast.pathname
        strategy == wLast.strategy
        handler == wLast.handler
    IN  /\ strategy \in {"cacheFirst", "networkFirst", "fetch"}
        /\ (IsManifest(pathname) \/ IsConfigFile(handler, pathname))
             => strategy = "networkFirst"
        /\ strategy = "cacheFirst"
             => (IsGalleryImage(pathname) \/ matchesHashedAsset(pathname))
        /\ ~(IsManifest(pathname) \/ IsConfigFile(handler, pathname)
               \/ IsGalleryImage(pathname) \/ matchesHashedAsset(pathname)
               \/ IsDocument(pathname))
             => strategy = "fetch"

(***************************************************************************)
(* The site title.  A click at the top reshuffles at once; a click further *)
(* down starts a smooth scroll to the top and polls window.scrollY on      *)
(* every animation frame, and the frame that reads 0 sets the timer that   *)
(* reshuffles after reshuffleDelay.                                        *)
(***************************************************************************)
MaxScroll == 3
MaxClicks == 3

LogoInit ==
  /\ scrollY \in 0..MaxScroll
  /\ smoothScroll = FALSE
  /\ clicks = <<>>
  /\ ExceptLogoIdle

\* handleLogoClick
HandleLogoClick ==
  /\ Len(clicks) < MaxClicks
  /\ IF scrollY > 0
       THEN /\ smoothScroll' = TRUE
            /\ clicks' = Append(clicks, [at |-> "frame", scrolled |-> TRUE, reshuffles |-> 0])
       ELSE /\ smoothScroll' = smoothScroll
            /\ clicks' = Append(clicks, [at |-> "done", scrolled |-> FALSE, reshuffles |-> 1])
  /\ UNCHANGED scrollY
  /\ UNCHANGED exceptLogo

\* checkScrollComplete, the animation-frame callback of click k: at the top
\* it sets the timer, elsewhere it asks for the next frame.
checkScrollComplete(k) ==
  /\ k \in 1..Len(clicks)
  /\ clicks[k].at = "frame"
  /\ clicks' = IF scrollY = 0 THEN [clicks EXCEPT ![k].at = "timer"] ELSE clicks
  /\ UNCHANGED <<scrollY, smoothScroll>>
  /\ UNCHANGED exceptLogo

\* The timer of click k fires after reshuffleDelay: triggerReshuffle.
ReshuffleTimer(k) ==
  /\ k \in 1..Len(clicks)
  /\ clicks[k].at = "timer"
  /\ clicks' = [clicks EXCEPT ![k].at = "done", ![k].reshuffles = @ + 1]
  /\ UNCHANGED <<scrollY, smoothScroll>>
  /\ UNCHANGED exceptLogo

\* window.scrollTo({top: 0, behavior: 'smooth'}): the browser moves the page
\* towards the top, a step per frame.
SmoothScrollStep ==
  /\ smoothScroll
  /\ scrollY' = IF scrollY > 0 THEN scrollY - 1 ELSE 0
  /\ smoothScroll' = (scrollY' > 0)
  /\ UNCHANGED clicks
  /\ UNCHANGED exceptLogo

\* The visitor scrolls by wheel, touch or keyboard, which ends a smooth
\* scroll that is running.
UserScroll(y) ==
  /\ y \in 0..MaxScroll
  /\ y # scrollY
  /\ scrollY' = y
  /\ smoothScroll' = FALSE
  /\ UNCHANGED clicks
  /\ UNCHANGED exceptLogo

LogoNext ==
  \/ HandleLogoClick
  \/ \E k \in 1..MaxClicks : checkScrollComplete(k)
  \/ \E k \in 1..MaxClicks : ReshuffleTimer(k)
  \/ SmoothScrollStep
  \/ \E y \in 0..MaxScroll : UserScroll(y)

\* The browser runs every requested animation frame and every timer, and
\* carries a smooth scroll on while nothing interrupts it.
LogoFairness ==
  /\ \A k \in 1..MaxClicks : WF_vars(checkScrollComplete(k))
  /\ \A k \in 1..MaxClicks : WF_vars(ReshuffleTimer(k))
  /\ WF_vars(SmoothScrollStep)

SpecLogo == LogoInit /\ [][LogoNext]_vars /\ LogoFairness

\* C25: every click on the site title leads to exactly one reshuffle on its
\* account, whatever the visitor scrolls or clicks meanwhile: never more
\* than one, and eventually one.
C25_ClickReshufflesOnce ==
  /\ [](\A k \in 1..Len(clicks) : clicks[k].reshuffles <= 1)
  /\ \A k \in 1..MaxClicks :
       (Len(clicks) >= k) ~> (Len(clicks) >= k /\ clicks[k].reshuffles = 1)

(***************************************************************************)
(* The plain viewer.  Photo elements are pooled: createGallery marks every *)
(* pool entry unused and takes, for each image of the shuffled manifest,   *)
(* the entry already bound to the image, else an unused entry that it      *)
(* reconfigures, else a new one.  An element is an entry of photoPool with *)
(* its data-image-id, its "loaded" class, whether its sources are still    *)
(* lazy (data-src set) and whether its image is being fetched.             *)
(***************************************************************************)
eagerLoadCount == 1

\* The manifests the server holds: the image ids of each gallery.  The two
\* galleries share an image, and one source image is named valueOf.
PoolManifests ==
  [bw |-> {"a", "b"}, co |-> {"b", "valueOf"}]

PoolGalleries == DOMAIN PoolManifests

\* config.galleries.items[galleryId], galleryManifests[galleryId] and
\* photoPoolByImageId[imageId] taken as conditions: the three are object
\* literals, under an inherited name each holds a function.
pool_items_truthy(galleryId) == galleryId \in PoolGalleries \/ galleryId \in InheritedNames

manifests_truthy(manifests, galleryId) == galleryId \in manifests \/ galleryId \in InheritedNames

\* createPhotoElement / reconfigurePhotoElement with updatePhotoSources:
\* the element carries the image id, is not loaded, and its sources are lazy.
\* stray: the element's parent is the fragment of a createGallery call that
\* threw before appending it.  observed: an IntersectionObserver of some
\* initLazyLoading call holds the element; a new element is held by none.
freshElement(imageId) ==
  [imageId |-> imageId, loaded |-> FALSE, lazy |-> TRUE, loading |-> FALSE,
   inUse |-> TRUE, stray |-> FALSE, observed |-> FALSE]

\* delete object[key]
without(object, key) == [k \in DOMAIN object \ {key} |-> object[k]]

\* object[key] = value
with(object, key, value) ==
  [k \in DOMAIN object \cup {key} |-> IF k = key THEN value ELSE object[k]]

\* getOrCreatePhotoElement(imageData) on the pool and the lookup: the new
\* pool, the new lookup and the index of the element returned.  Under an
\* inherited name the lookup holds a function: it is taken for the pool
\* entry, and its element is undefined (0 here).
getOrCreatePhotoElement(pool, byId, imageId) ==
  LET unusedOnes == {e \in 1..Len(pool) : ~pool[e].inUse}
  IN  IF imageId \in DOMAIN byId
        THEN [pool |-> [pool EXCEPT ![byId[imageId]].inUse = TRUE],
              byId |-> byId, element |-> byId[imageId]]
      ELSE IF imageId \in InheritedNames
        THEN [pool |-> pool, byId |-> byId, element |-> 0]
      ELSE IF unusedOnes # {}
        THEN LET unused == CHOOSE e \in unusedOnes : \A o \in unusedOnes : e <= o
             IN  [pool |-> [pool EXCEPT ![unused] =
                              [freshElement(imageId) EXCEPT
                                 !.stray = pool[unused].stray,
                                 !.observed = pool[unused].observed]],
                  byId |-> with(without(byId, imageId), imageId, unused),
                  element |-> unused]
      ELSE [pool |-> Append(pool, freshElement(imageId)),
            byId |-> with(byId, imageId, Len(pool) + 1),
            element |-> Len(pool) + 1]

\* loadPhoto(photo): lazy sources start loading; anything else is left.
loadPhoto(photo) ==
  IF photo.lazy THEN [photo EXCEPT !.lazy = FALSE, !.loading = TRUE] ELSE photo

\* createGallery with the shuffled images: phases 2 to 7.  When
\* getOrCreatePhotoElement returns undefined, element.parentNode throws in
\* phase 3: the entries are marked as far as the loop came, the elements
\* taken without a parent are left in the fragment, the page is as it was
\* and no photo is loaded.  Phase 4 of a call that completes takes an
\* unused element out of whatever parent it has.  Phase 7, initLazyLoading,
\* loads the first eagerLoadCount photos of the page and has a new
\* IntersectionObserver observe each of the others; the observers of the
\* calls before keep the elements they hold.
createGallery(pool, byId, dom, images) ==
  LET RECURSIVE place(_, _, _, _)
      place(p, b, k, elements) ==
        IF k > Len(images)
        THEN [pool |-> p, byId |-> b, elements |-> elements, threw |-> FALSE]
        ELSE LET got == getOrCreatePhotoElement(p, b, images[k])
             IN  IF got.element = 0
                 THEN [pool |-> p, byId |-> b, elements |-> elements, threw |-> TRUE]
                 ELSE place(got.pool, got.byId, k + 1, Append(elements, got.element))
      placed == place([e \in 1..Len(pool) |-> [pool[e] EXCEPT !.inUse = FALSE]],
                      byId, 1, <<>>)
      parentless(e) == e \notin Range(dom) /\ ~placed.pool[e].stray
      kept == SelectSeq(dom, LAMBDA e : placed.pool[e].inUse)
      added == SelectSeq(placed.elements, parentless)
      newDom == kept \o added
      eager == {newDom[k] : k \in {m \in 1..Len(newDom) : m <= eagerLoadCount}}
  IN  IF placed.threw
      THEN [pool |-> [e \in 1..Len(placed.pool) |->
                        IF e \in Range(placed.elements) /\ parentless(e)
                        THEN [placed.pool[e] EXCEPT !.stray = TRUE]
                        ELSE placed.pool[e]],
            byId |-> placed.byId,
            dom |-> dom,
            threw |-> TRUE]
      ELSE [pool |-> [e \in 1..Len(placed.pool) |->
                        LET photo == [placed.pool[e] EXCEPT !.stray = @ /\ placed.pool[e].inUse]
                        IN  IF e \in eager THEN loadPhoto(photo)
                            ELSE IF e \in Range(newDom)
                              THEN [photo EXCEPT !.observed = TRUE]
                            ELSE photo],
            byId |-> placed.byId,
            dom |-> newDom,
            threw |-> FALSE]

\* init() after the configuration has been loaded and the selector set up:
\* it waits for the manifest of the initial gallery, which is the gallery
\* of the hash, whatever it names, or the default.
PoolInit ==
  /\ pInit \in {[gallery |-> g, pc |-> "fetch"] : g \in PoolGalleries \cup InheritedNames}
  /\ currentGallery = "null"
  /\ photoPool = <<>>
  /\ photoPoolByImageId = EmptyObject
  /\ pDom = <<>>
  /\ loadedImageIds = {}
  /\ pSequence = <<>>
  /\ pOpen = FALSE
  /\ pClicked = "null"
  /\ galleryManifests = {}
  /\ pPending = EmptyBag
  /\ ExceptPoolIdle

\* init(): await fetch(manifestUrl) returns a response or throws.
InitFetchReturns(ok) ==
  /\ pInit.pc = "fetch"
  /\ pInit' = [pInit EXCEPT !.pc = IF ok THEN "json" ELSE "failed"]
  /\ UNCHANGED <<currentGallery, photoPool, photoPoolByImageId, loadedImageIds, pDom,
                 pSequence, pOpen, pClicked, galleryManifests, pPending>>
  /\ UNCHANGED exceptPool

\* init(): await manifestResponse.json() returns the manifest of a gallery
\* the server holds, or throws.  With the manifest the gallery becomes
\* current and createGallery runs on the pool, the lookup and the loaded
\* ids as they are; then the lightbox, the hashchange and the logo
\* listeners are set up.  An exception anywhere ends init in its catch
\* block, before the listeners.
InitJsonSettles(ok) ==
  /\ pInit.pc = "json"
  /\ ok => pInit.gallery \in PoolGalleries
  /\ IF ok
       THEN /\ galleryManifests' = galleryManifests \cup {pInit.gallery}
            /\ currentGallery' = pInit.gallery
            /\ \E images \in Orderings(PoolManifests[pInit.gallery]) :
                 LET made == createGallery(photoPool, photoPoolByImageId, pDom, images)
                 IN  /\ photoPool' = made.pool
                     /\ photoPoolByImageId' = made.byId
                     /\ pDom' = made.dom
                     /\ pInit' = [pInit EXCEPT !.pc = IF made.threw THEN "failed" ELSE "done"]
       ELSE /\ pInit' = [pInit EXCEPT !.pc = "failed"]
            /\ UNCHANGED <<currentGallery, photoPool, photoPoolByImageId, pDom,
                           galleryManifests>>
  /\ UNCHANGED <<loadedImageIds, pSequence, pOpen, pClicked, pPending>>
  /\ UNCHANGED exceptPool

\* img.onload of a photo whose image was being fetched: the photo gets the
\* loaded class and the image id it carries now joins loadedImageIds.
ImgOnload(e) ==
  /\ e \in 1..Len(photoPool)
  /\ photoPool[e].loading
  /\ photoPool' = [photoPool EXCEPT ![e].loading = FALSE, ![e].loaded = TRUE]
  /\ loadedImageIds' = loadedImageIds \cup {photoPool[e].imageId}
  /\ UNCHANGED <<currentGallery, photoPoolByImageId, pDom, pSequence, pOpen, pClicked,
                 galleryManifests, pPending, pInit>>
  /\ UNCHANGED exceptPool

\* img.onerror of a photo whose image was being fetched: the photo is hidden
\* and stays without the loaded class.
ImgOnerror(e) ==
  /\ e \in 1..Len(photoPool)
  /\ photoPool[e].loading
  /\ photoPool' = [photoPool EXCEPT ![e].loading = FALSE]
  /\ UNCHANGED <<currentGallery, photoPoolByImageId, loadedImageIds, pDom, pSequence,
                 pOpen, pClicked, galleryManifests, pPending, pInit>>
  /\ UNCHANGED exceptPool

\* A photo of the page that some IntersectionObserver holds comes into
\* view: each observer that holds it reports it in the same rendering
\* update, calls loadPhoto and unobserves it.
Intersecting(e) ==
  /\ e \in Range(pDom)
  /\ photoPool[e].observed
  /\ photoPool' = [photoPool EXCEPT ![e] = [loadPhoto(@) EXCEPT !.observed = FALSE]]
  /\ UNCHANGED <<currentGallery, photoPoolByImageId, loadedImageIds, pDom, pSequence,
                 pOpen, pClicked, galleryManifests, pPending, pInit>>
  /\ UNCHANGED exceptPool

\* reshuffleGallery with the manifest of a gallery and a lookup: the loaded
\* ids are cleared and the gallery is created again from the pool.  What
\* galleryManifests inherits under a name has no images: createGallery
\* throws at shuffle(undefined) and the pool and the page stay.
reshuffleGallery(galleryId, byId) ==
  /\ IF galleryId \in PoolGalleries
       THEN \E images \in Orderings(PoolManifests[galleryId]) :
              LET made == createGallery(photoPool, byId, pDom, images)
              IN  /\ photoPool' = made.pool
                  /\ photoPoolByImageId' = made.byId
                  /\ pDom' = made.dom
       ELSE /\ photoPoolByImageId' = byId
            /\ UNCHANGED <<photoPool, pDom>>
  /\ loadedImageIds' = {}

\* The logo is clicked, once init has set up its listener: reshuffleGallery.
ReshuffleGallery ==
  /\ pInit.pc = "done"
  /\ reshuffleGallery(currentGallery, photoPoolByImageId)
  /\ UNCHANGED <<currentGallery, pSequence, pOpen, pClicked, galleryManifests, pPending,
                 pInit>>
  /\ UNCHANGED exceptPool

\* switchGallery(galleryId) after its manifest is there: the lookup and the
\* loaded ids are cleared, the gallery becomes current, reshuffleGallery.
ApplyPoolSwitch(galleryId) ==
  /\ currentGallery' = galleryId
  /\ reshuffleGallery(galleryId, EmptyObject)

\* switchGallery(galleryId), from the selector, which is set up before init
\* waits for its manifest and offers the galleries of the configuration, or
\* from a hash change, whose listener init sets up last: nothing when the
\* items hold nothing truthy under the name or for the current gallery;
\* when galleryManifests holds something truthy under the name the switch
\* is made at once, else the call waits for the manifest.
PoolSwitchGallery(galleryId) ==
  /\ pool_items_truthy(galleryId)
  /\ galleryId \notin PoolGalleries => pInit.pc = "done"
  /\ galleryId # currentGallery
  /\ IF manifests_truthy(galleryManifests, galleryId)
       THEN /\ ApplyPoolSwitch(galleryId)
            /\ UNCHANGED pPending
       ELSE /\ BagCardinality(pPending) < MaxPending
            /\ pPending' = pPending (+) SetToBag({galleryId})
            /\ UNCHANGED <<currentGallery, photoPool, photoPoolByImageId,
                           loadedImageIds, pDom>>
  /\ UNCHANGED <<pSequence, pOpen, pClicked, galleryManifests, pInit>>
  /\ UNCHANGED exceptPool

\* The manifest of a waiting switchGallery arrives: it is stored and the
\* switch is made, whatever the current gallery has become meanwhile.  A
\* request that fails ends the call and changes nothing.
PoolManifestArrives(galleryId, ok) ==
  /\ BagIn(galleryId, pPending)
  /\ pPending' = pPending (-) SetToBag({galleryId})
  /\ IF ok
       THEN /\ galleryManifests' = galleryManifests \cup {galleryId}
            /\ ApplyPoolSwitch(galleryId)
       ELSE UNCHANGED <<currentGallery, photoPool, photoPoolByImageId,
                        loadedImageIds, pDom, galleryManifests>>
  /\ UNCHANGED <<pSequence, pOpen, pClicked, pInit>>
  /\ UNCHANGED exceptPool

\* The click handler of the gallery, once init has set up the lightbox: a
\* photo with the loaded class opens the lightbox on the sequence
\* generateSequence builds from loadedImageIds.
PoolPhotoClick(e) ==
  /\ pInit.pc = "done"
  /\ e \in Range(pDom)
  /\ photoPool[e].loaded
  /\ \E ids \in LoadedArrays(loadedImageIds) :
       \E r \in ShuffleChoices(Len(ids)) :
         pSequence' = generateSequence(photoPool[e].imageId, ids, r)
  /\ pOpen' = TRUE
  /\ pClicked' = photoPool[e].imageId
  /\ UNCHANGED <<currentGallery, photoPool, photoPoolByImageId, loadedImageIds, pDom,
                 galleryManifests, pPending, pInit>>
  /\ UNCHANGED exceptPool

\* closeLightbox
PoolCloseLightbox ==
  /\ pOpen
  /\ pOpen' = FALSE
  /\ pSequence' = <<>>
  /\ UNCHANGED <<currentGallery, photoPool, photoPoolByImageId, loadedImageIds, pDom,
                 pClicked, galleryManifests, pPending, pInit>>
  /\ UNCHANGED exceptPool

PoolNext ==
  \/ \E ok \in BOOLEAN : InitFetchReturns(ok)
  \/ \E ok \in BOOLEAN : InitJsonSettles(ok)
  \/ \E e \in 1..Len(photoPool) : ImgOnload(e)
  \/ \E e \in 1..Len(photoPool) : ImgOnerror(e)
  \/ \E e \in 1..Len(photoPool) : Intersecting(e)
  \/ ReshuffleGallery
  \/ \E galleryId \in PoolGalleries \cup InheritedNames \cup {UnknownGallery} :
       PoolSwitchGallery(galleryId)
  \/ \E galleryId \in PoolGalleries, ok \in BOOLEAN : PoolManifestArrives(galleryId, ok)
  \/ \E e \in 1..Len(photoPool) : PoolPhotoClick(e)
  \/ PoolCloseLightbox

SpecPool == PoolInit /\ [][PoolNext]_vars

\* C28: every photo element of the page that carries the loaded class has
\* its image id in loadedImageIds, and the sequence generated on a click is
\* not empty and starts with the clicked image.
C28_LoadedClassMeansLoadedId ==
  /\ \A e \in Range(pDom) : photoPool[e].loaded => photoPool[e].imageId \in loadedImageIds
  /\ pOpen => (Len(pSequence) > 0 /\ pSequence[1] = pClicked)

(***************************************************************************)
(* The masonry layout.  A JavaScript number is an IEEE 754 binary64 value: *)
(* a record [neg, man, exp] that stands for (-1)^neg * man * 2^exp, where  *)
(* man is 0 or has exactly 53 bits.  Every arithmetic operation of the     *)
(* code is the exact result rounded to the nearest such value, ties to the *)
(* even mantissa.  The values of the layout are far from the overflow and  *)
(* underflow thresholds, and no negative zero arises.  The arithmetic is   *)
(* written as functions, whose arguments are computed once.                *)
(***************************************************************************)
MaxPhotos == 5
MaxColumns == 3

\* Natural numbers of any size: the digits in base 2^15, lowest first,
\* without a zero as the highest digit; <<>> is 0.
BigNat == Seq(Nat)

TwoTo[k \in Nat] == IF k = 0 THEN 1 ELSE 2 * TwoTo[k - 1]

DigitBase == TwoTo[15]

BigFromNat[n \in Nat] ==
  IF n = 0 THEN <<>> ELSE <<n % DigitBase>> \o BigFromNat[n \div DigitBase]

BigDigit(a, i) == IF i <= Len(a) THEN a[i] ELSE 0

BigTrim[a \in BigNat] ==
  IF a # <<>> /\ a[Len(a)] = 0 THEN BigTrim[SubSeq(a, 1, Len(a) - 1)] ELSE a

BigAddFrom[a \in BigNat, b \in BigNat, i \in Nat, carry \in Nat, acc \in BigNat] ==
  IF i > Len(a) /\ i > Len(b)
    THEN IF carry = 0 THEN acc ELSE Append(acc, carry)
    ELSE BigAddFrom[a, b, i + 1,
                    (BigDigit(a, i) + BigDigit(b, i) + carry) \div DigitBase,
                    Append(acc, (BigDigit(a, i) + BigDigit(b, i) + carry) % DigitBase)]

\* a + b
BigAdd[a \in BigNat, b \in BigNat] == BigAddFrom[a, b, 1, 0, <<>>]

BigSubFrom[a \in BigNat, b \in BigNat, i \in Nat, borrow \in Nat, acc \in BigNat] ==
  IF i > Len(a) THEN BigTrim[acc]
  ELSE IF a[i] - BigDigit(b, i) - borrow < 0
    THEN BigSubFrom[a, b, i + 1, 1, Append(acc, a[i] - BigDigit(b, i) - borrow + DigitBase)]
    ELSE BigSubFrom[a, b, i + 1, 0, Append(acc, a[i] - BigDigit(b, i) - borrow)]

\* a - b, for a >= b
BigSub[a \in BigNat, b \in BigNat] == BigSubFrom[a, b, 1, 0, <<>>]

BigCmpFrom[a \in BigNat, b \in BigNat, i \in Nat] ==
  IF i = 0 THEN 0
  ELSE IF a[i] < b[i] THEN -1
  ELSE IF a[i] > b[i] THEN 1
  ELSE BigCmpFrom[a, b, i - 1]

\* -1, 0 or 1 as a is less than, equal to or greater than b
BigCmp[a \in BigNat, b \in BigNat] ==
  IF Len(a) < Len(b) THEN -1
  ELSE IF Len(a) > Len(b) THEN 1
  ELSE BigCmpFrom[a, b, Len(a)]

BigMulDigitFrom[a \in BigNat, d \in Nat, i \in Nat, carry \in Nat, acc \in BigNat] ==
  IF i > Len(a)
    THEN IF carry = 0 THEN acc ELSE Append(acc, carry)
    ELSE BigMulDigitFrom[a, d, i + 1, (a[i] * d + carry) \div DigitBase,
                         Append(acc, (a[i] * d + carry) % DigitBase)]

\* a * d for one digit d
BigMulDigit[a \in BigNat, d \in Nat] ==
  IF d = 0 THEN <<>> ELSE BigMulDigitFrom[a, d, 1, 0, <<>>]

\* a * DigitBase^n
BigShiftDigits[a \in BigNat, n \in Nat] ==
  IF a = <<>> THEN <<>> ELSE [i \in 1..n |-> 0] \o a

BigMulFrom[a \in BigNat, b \in BigNat, j \in Nat, acc \in BigNat] ==
  IF j > Len(b) THEN acc
  ELSE BigMulFrom[a, b, j + 1,
                  BigAdd[acc, BigShiftDigits[BigMulDigit[a, b[j]], j - 1]]]

\* a * b
BigMul[a \in BigNat, b \in BigNat] == BigMulFrom[a, b, 1, <<>>]

\* a * 2^k
BigShl[a \in BigNat, k \in Nat] ==
  BigShiftDigits[BigMulDigit[a, TwoTo[k % 15]], k \div 15]

BigDivDigitFrom[a \in BigNat, d \in Nat, i \in Nat, rem \in Nat, acc \in BigNat] ==
  IF i = 0 THEN BigTrim[acc]
  ELSE BigDivDigitFrom[a, d, i - 1, (rem * DigitBase + a[i]) % d,
                       <<(rem * DigitBase + a[i]) \div d>> \o acc]

\* floor(a / 2^k)
BigShr[a \in BigNat, k \in Nat] ==
  IF k \div 15 >= Len(a) THEN <<>>
  ELSE BigDivDigitFrom[SubSeq(a, k \div 15 + 1, Len(a)), TwoTo[k % 15],
                       Len(a) - k \div 15, 0, <<>>]

\* a mod 2^k
BigLowBits[a \in BigNat, k \in Nat] == BigSub[a, BigShl[BigShr[a, k], k]]

BitsOfDigit[d \in Nat] == IF d = 0 THEN 0 ELSE 1 + BitsOfDigit[d \div 2]

\* The number of bits of a
BigBitLen[a \in BigNat] ==
  IF a = <<>> THEN 0 ELSE 15 * (Len(a) - 1) + BitsOfDigit[a[Len(a)]]

QuotDigitIn[r \in BigNat, b \in BigNat, lo \in Nat, hi \in Nat] ==
  IF lo = hi THEN lo
  ELSE IF BigCmp[BigMulDigit[b, (lo + hi + 1) \div 2], r] <= 0
    THEN QuotDigitIn[r, b, (lo + hi + 1) \div 2, hi]
    ELSE QuotDigitIn[r, b, lo, (lo + hi + 1) \div 2 - 1]

\* floor(r / b) for r < b * DigitBase: the greatest digit d with b * d <= r
QuotDigit[r \in BigNat, b \in BigNat] == QuotDigitIn[r, b, 0, DigitBase - 1]

\* One step of the long division: the digit d of the quotient is put before
\* the digits found so far and b * d is taken from the running remainder r.
BigDivPut[r \in BigNat, b \in BigNat, d \in Nat, quot \in BigNat] ==
  [rem |-> BigSub[r, BigMulDigit[b, d]], quot |-> <<d>> \o quot]

BigDivStep[r \in BigNat, b \in BigNat, quot \in BigNat] ==
  BigDivPut[r, b, QuotDigit[r, b], quot]

\* A running remainder with the quotient digits found so far.
Division == [rem : BigNat, quot : BigNat]

BigDivFrom[a \in BigNat, b \in BigNat, i \in Nat, st \in Division] ==
  IF i = 0 THEN [quot |-> BigTrim[st.quot], rem |-> st.rem]
  ELSE BigDivFrom[a, b, i - 1,
                  BigDivStep[BigAdd[BigShiftDigits[st.rem, 1], BigFromNat[a[i]]],
                             b, st.quot]]

\* floor(a / b) and a mod b, for b > 0, by long division in base 2^15
BigDivMod[a \in BigNat, b \in BigNat] ==
  BigDivFrom[a, b, Len(a), [rem |-> <<>>, quot |-> <<>>]]

\* A sign, a mantissa and an exponent: (-1)^neg * man * 2^exp
Number == [neg : BOOLEAN, man : BigNat, exp : Int]

\* The number 0
Zero == [neg |-> FALSE, man |-> <<>>, exp |-> 0]

\* 2^52, the least 53-bit mantissa
TwoTo52 == BigShl[<<1>>, 52]

\* The 53-bit mantissa q, raised by one when the part that was cut off is
\* more than half a unit of q (c > 0) or is half a unit and q is odd (c = 0);
\* a mantissa that reaches 2^53 is halved.
RoundedUp[neg \in BOOLEAN, q \in BigNat, c \in Int, exp \in Int] ==
  IF c > 0 \/ (c = 0 /\ q[1] % 2 = 1)
    THEN IF BigAdd[q, <<1>>] = BigShl[TwoTo52, 1]
           THEN [neg |-> neg, man |-> TwoTo52, exp |-> exp + 1]
           ELSE [neg |-> neg, man |-> BigAdd[q, <<1>>], exp |-> exp]
    ELSE [neg |-> neg, man |-> q, exp |-> exp]

\* The binary64 value nearest to (-1)^neg * man * 2^exp for a mantissa of n
\* bits, ties to even
RoundBits[neg \in BOOLEAN, man \in BigNat, exp \in Int, n \in Nat] ==
  IF n = 0 THEN Zero
  ELSE IF n <= 53
    THEN [neg |-> neg, man |-> BigShl[man, 53 - n], exp |-> exp - (53 - n)]
  ELSE RoundedUp[neg, BigShr[man, n - 53],
                 BigCmp[BigLowBits[man, n - 53], BigShl[<<1>>, n - 54]],
                 exp + (n - 53)]

\* The binary64 value nearest to a number
RoundToDouble[v \in Number] == RoundBits[v.neg, v.man, v.exp, BigBitLen[v.man]]

\* The binary64 value with the 53-bit mantissa hi * 2^27 + lo
Double[neg \in BOOLEAN, hi \in Nat, lo \in Nat, exp \in Int] ==
  [neg |-> neg, man |-> BigAdd[BigShl[BigFromNat[hi], 27], BigFromNat[lo]], exp |-> exp]

\* An integer as a number
FromInt[n \in Int] ==
  RoundToDouble[[neg |-> n < 0, man |-> BigFromNat[IF n < 0 THEN -n ELSE n], exp |-> 0]]

\* The sum of two numbers of the same exponent, without rounding
SumAligned[xneg \in BOOLEAN, a \in BigNat, yneg \in BOOLEAN, b \in BigNat, e \in Int] ==
  IF xneg = yneg THEN [neg |-> xneg, man |-> BigAdd[a, b], exp |-> e]
  ELSE IF BigCmp[a, b] = 0 THEN Zero
  ELSE IF BigCmp[a, b] > 0 THEN [neg |-> xneg, man |-> BigSub[a, b], exp |-> e]
  ELSE [neg |-> yneg, man |-> BigSub[b, a], exp |-> e]

\* x + y and x * y as real numbers, without rounding
ExactSum[x \in Number, y \in Number] ==
  IF x.man = <<>> THEN y
  ELSE IF y.man = <<>> THEN x
  ELSE IF x.exp < y.exp
    THEN SumAligned[x.neg, x.man, y.neg, BigShl[y.man, y.exp - x.exp], x.exp]
    ELSE SumAligned[x.neg, BigShl[x.man, x.exp - y.exp], y.neg, y.man, y.exp]

ExactProd[x \in Number, y \in Number] ==
  IF x.man = <<>> \/ y.man = <<>> THEN Zero
  ELSE [neg |-> x.neg # y.neg, man |-> BigMul[x.man, y.man], exp |-> x.exp + y.exp]

Negated[x \in Number] == IF x.man = <<>> THEN x ELSE [x EXCEPT !.neg = ~x.neg]

ExactDiff[x \in Number, y \in Number] == ExactSum[x, Negated[y]]

IsNegative[x \in Number] == x.man # <<>> /\ x.neg

\* x < y and x <= y as real numbers
Less[x \in Number, y \in Number] == IsNegative[ExactDiff[x, y]]
Leq[x \in Number, y \in Number] == ~Less[y, x]

\* The operators +, -, * and / of the code
fadd[x \in Number, y \in Number] == RoundToDouble[ExactSum[x, y]]
fsub[x \in Number, y \in Number] == RoundToDouble[ExactDiff[x, y]]
fmul[x \in Number, y \in Number] == RoundToDouble[ExactProd[x, y]]

\* The quotient of the mantissas to 57 or 58 bits, with one more bit that
\* records a remainder: enough to round the quotient correctly.
WithSticky[d \in Division] ==
  BigAdd[BigShl[d.quot, 1], IF d.rem = <<>> THEN <<>> ELSE <<1>>]

\* x / y for y other than 0.  A division by a power of two only changes the
\* exponent.
fdiv[x \in Number, y \in Number] ==
  IF x.man = <<>> THEN Zero
  ELSE IF y.man = TwoTo52
    THEN [neg |-> x.neg # y.neg, man |-> x.man, exp |-> x.exp - y.exp - 52]
  ELSE RoundToDouble[[neg |-> x.neg # y.neg,
                      man |-> WithSticky[BigDivMod[BigShl[x.man, 57], y.man]],
                      exp |-> x.exp - y.exp - 58]]

\* A decimal literal n/d of the configuration or of the code: the number
\* nearest to the fraction.
Dec[n \in Int, d \in Nat] == fdiv[FromInt[n], FromInt[d]]

\* The numbers 1, 2 and 100, the multiplier of the sine, the ratios of
\* height to width of a landscape and of a portrait photo, and the default
\* gutter.
One == FromInt[1]
Two == FromInt[2]
Hundred == FromInt[100]
SineMultiplier == Dec[437585453, 10000]
LandscapeRatio == Dec[67, 100]
PortraitRatio == Dec[3, 2]
DefaultGutter == Dec[3, 2]

\* Math.abs(x)
abs[x \in Number] == [x EXCEPT !.neg = FALSE]

\* x % 1 for x >= 0: the fraction of x, which is exact
mod1[x \in Number] ==
  IF x.exp >= 0 THEN Zero
  ELSE RoundToDouble[[neg |-> FALSE, man |-> BigLowBits[x.man, -x.exp], exp |-> x.exp]]

\* Math.sin(index * 12.9898 + 78.233) for index = 0, 1, ..., 10.  For these
\* arguments the fdlibm sine of the V8 engine and the correctly rounded sine
\* are the same number.
SinOfIndex ==
  << Double[FALSE, 40537134, 90158346, -54],
     Double[TRUE, 62464356, 6834254, -56],
     Double[TRUE, 34505524, 89041510, -53],
     Double[TRUE, 55108308, 28357654, -53],
     Double[TRUE, 65977333, 131235588, -53],
     Double[TRUE, 65192810, 56170811, -53],
     Double[TRUE, 52893307, 81416230, -53],
     Double[TRUE, 62502563, 42362610, -54],
     Double[TRUE, 65429675, 30224224, -57],
     Double[FALSE, 47589746, 78190345, -54],
     Double[FALSE, 47476222, 82586928, -53] >>

\* getPhotoScale(index, min, max)
getPhotoScale[index \in Nat, min \in Number, max \in Number] ==
  IF min = max THEN min
  ELSE fadd[min, fmul[mod1[abs[fmul[SinOfIndex[index + 1], SineMultiplier]]],
                      fsub[max, min]]]

\* The value of a key of a configuration object, or the default of the
\* destructuring when the key is absent.
OrDefault(config, key, default) ==
  IF key \in DOMAIN config THEN config[key] ELSE default

\* Variant that takes the scale as a share of the column, not of scaleMax.
basePhotoWidth_unscaled(maxPhotoWidth, scaleMax) == maxPhotoWidth

\* basePhotoWidth = maxPhotoWidth / scaleMax
basePhotoWidth(maxPhotoWidth, scaleMax) == fdiv[maxPhotoWidth, scaleMax]

\* The height of a photo of the given width: 0.67, 1.5 or 1 times the width.
scaledHeight[orientation \in STRING, scaledWidth \in Number] ==
  IF orientation = "landscape" THEN fmul[scaledWidth, LandscapeRatio]
  ELSE IF orientation = "portrait" THEN fmul[scaledWidth, PortraitRatio]
  ELSE scaledWidth

\* The search for the shortest column: column 0, replaced by each later
\* column that is strictly lower than the lowest seen so far.  The heights
\* of the columns 0, 1, ... are columnHeights[1], columnHeights[2], ...
shortestFrom[columnHeights \in Seq(Number), col \in Nat, shortest \in Nat] ==
  IF col >= Len(columnHeights) THEN shortest
  ELSE shortestFrom[columnHeights, col + 1,
                    IF Less[columnHeights[col + 1], columnHeights[shortest + 1]]
                      THEN col ELSE shortest]

shortestColumn[columnHeights \in Seq(Number)] == shortestFrom[columnHeights, 1, 0]

\* columnWidth = availableWidth / columns, with availableWidth =
\* 100 - leftMargin - rightMargin
columnWidth(columns, galleryConfig) ==
  fdiv[fsub[fsub[Hundred, OrDefault(galleryConfig, "leftMargin", One)],
            OrDefault(galleryConfig, "rightMargin", One)],
       FromInt[columns]]

\* What computeMasonryPositions works out before its loop.
Prepared ==
  [topMargin : Number, leftMargin : Number, gutter : Number, scaleMin : Number,
   scaleMax : Number, columnWidth : Number, maxPhotoWidth : Number,
   basePhotoWidth : Number]

prepare(columns, galleryConfig, layoutConfig) ==
  LET gutter == OrDefault(layoutConfig, "gutter", DefaultGutter)
      scaleRandom == OrDefault(layoutConfig, "scaleRandom", [min |-> One, max |-> One])
      swapped == Less[scaleRandom.max, scaleRandom.min]
      scaleMax == IF swapped THEN scaleRandom.min ELSE scaleRandom.max
      maxPhotoWidth == fsub[columnWidth(columns, galleryConfig), gutter]
  IN  [topMargin |-> galleryConfig.topMargin,
       leftMargin |-> OrDefault(galleryConfig, "leftMargin", One),
       gutter |-> gutter,
       scaleMin |-> IF swapped THEN scaleRandom.max ELSE scaleRandom.min,
       scaleMax |-> scaleMax,
       columnWidth |-> columnWidth(columns, galleryConfig),
       maxPhotoWidth |-> maxPhotoWidth,
       basePhotoWidth |-> basePhotoWidth(maxPhotoWidth, scaleMax)]

Position == [left : Number, top : Number, width : Number, height : Number]

\* The rest of one pass of the loop, for the column found and the width
\* computed: the position of the photo, and the height of its column raised
\* by the height of the photo and the gutter.
placed[p \in Prepared, columnHeights \in Seq(Number), col \in Nat, scaledWidth \in Number, height \in Number] ==
  [position |->
     [left |-> fadd[fadd[fadd[p.leftMargin, fmul[FromInt[col], p.columnWidth]],
                         fdiv[p.gutter, Two]],
                    fdiv[fsub[p.maxPhotoWidth, scaledWidth], Two]],
      top |-> fadd[p.topMargin, columnHeights[col + 1]],
      width |-> scaledWidth,
      height |-> height],
   columnHeights |->
     [columnHeights EXCEPT ![col + 1] = fadd[@, fadd[height, p.gutter]]]]

sized[p \in Prepared, columnHeights \in Seq(Number), orientation \in STRING, scaledWidth \in Number] ==
  placed[p, columnHeights, shortestColumn[columnHeights], scaledWidth,
         scaledHeight[orientation, scaledWidth]]

\* positions and columnHeights as the loop holds them between two images.
Layout == [positions : Seq(Position), columnHeights : Seq(Number)]

Placement == [position : Position, columnHeights : Seq(Number)]

pushed[positions \in Seq(Position), r \in Placement] ==
  [positions |-> Append(positions, r.position), columnHeights |-> r.columnHeights]

\* The loop over the images: image i (counted from 0) is placed after the
\* images before it.
placeFrom[p \in Prepared, images \in Seq(STRING), i \in Nat, st \in Layout] ==
  IF i >= Len(images) THEN st.positions
  ELSE placeFrom[p, images, i + 1,
                 pushed[st.positions,
                        sized[p, st.columnHeights, images[i + 1],
                              fmul[p.basePhotoWidth,
                                   getPhotoScale[i, p.scaleMin, p.scaleMax]]]]]

\* computeMasonryPositions(images, {columns}, galleryConfig, layoutConfig)
computeMasonryPositions(images, columns, galleryConfig, layoutConfig) ==
  placeFrom[prepare(columns, galleryConfig, layoutConfig), images, 0,
            [positions |-> <<>>, columnHeights |-> [c \in 1..columns |-> Zero]]]

Orientations == {"landscape", "portrait", "square"}

\* galleryConfig: the margins of the example theme.json, and a theme that
\* leaves the side margins to their defaults.
GalleryConfigs ==
  { [topMargin |-> One, leftMargin |-> FromInt[3], rightMargin |-> FromInt[3]],
    [topMargin |-> One] }

\* scaleRandom: a documented range, a range that reaches above 1 in either
\* order, and a single value above 1.
ScaleRandoms ==
  { [min |-> Dec[7, 10], max |-> One],
    [min |-> Dec[6, 5], max |-> Dec[7, 10]],
    [min |-> Dec[7, 10], max |-> Dec[6, 5]],
    [min |-> Dec[6, 5], max |-> Dec[6, 5]] }

\* A gutter wider than a third of the page
WideGutter == 35

\* layoutConfig: no key at all, a scaleRandom, or a wide gutter.
LayoutConfigs ==
  {EmptyObject} \cup {[scaleRandom |-> s] : s \in ScaleRandoms}
    \cup {[gutter |-> FromInt[WideGutter]]}

MasonryInit ==
  /\ mImages \in UNION {[1..n -> Orientations] : n \in 0..MaxPhotos}
  /\ mColumns \in 1..MaxColumns
  /\ mGalleryConfig \in GalleryConfigs
  /\ mLayoutConfig \in LayoutConfigs
  /\ mPositions = <<>>
  /\ mState = "ready"
  /\ ExceptMasonryIdle

MasonryCompute ==
  /\ mState = "ready"
  /\ mPositions' = computeMasonryPositions(mImages, mColumns, mGalleryConfig, mLayoutConfig)
  /\ mState' = "done"
  /\ UNCHANGED <<mImages, mColumns, mGalleryConfig, mLayoutConfig>>
  /\ UNCHANGED exceptMasonry

MasonryNext == MasonryCompute

SpecMasonry == MasonryInit /\ [][MasonryNext]_vars

\* The quantities of the computed layout: the gutter, the left margin and
\* the column width the code used.
Gutter == OrDefault(mLayoutConfig, "gutter", DefaultGutter)
LeftMargin == OrDefault(mGalleryConfig, "leftMargin", One)
ColumnWidth == columnWidth(mColumns, mGalleryConfig)

RECURSIVE EdgesUpTo(_, _)
EdgesUpTo(c, colWidth) ==
  IF c < 0 THEN <<>>
  ELSE Append(EdgesUpTo(c - 1, colWidth),
              ExactSum[LeftMargin, ExactProd[FromInt[c], colWidth]])

\* The edges of the slots as real numbers: edge[c + 1] is the left edge of
\* the slot of column c and edge[c + 2] is its right edge.
SlotEdges == EdgesUpTo(mColumns, ColumnWidth)

Right(pos) == ExactSum[pos.left, pos.width]
Bottom(pos) == ExactSum[pos.top, pos.height]

InSlot(edge, c, pos) == Leq[edge[c + 1], pos.left] /\ Leq[Right(pos), edge[c + 2]]

\* Two photos lie in the slot of the same column.
SameSlot(edge, a, b) ==
  \E c \in 0..(mColumns - 1) : InSlot(edge, c, a) /\ InSlot(edge, c, b)

\* No point lies inside both photos.
Apart(a, b) ==
  \/ Leq[Right(a), b.left] \/ Leq[Right(b), a.left]
  \/ Leq[Bottom(a), b.top] \/ Leq[Bottom(b), a.top]

\* The room to the left of a photo in slot c less the room to its right.
OffCentre(edge, c, pos) ==
  ExactDiff[ExactDiff[pos.left, edge[c + 1]], ExactDiff[edge[c + 2], Right(pos)]]

Tolerance == [neg |-> FALSE, man |-> <<1>>, exp |-> -32]

\* x <= y up to the allowance
LeqRounded(x, y) == Leq[x, ExactSum[y, Tolerance]]

====
